---- MODULE Spec2Model ----
(***************************************************************************)
(* Model of github-projects-mcp: the tracking store (tracked_repositories   *)
(* and tracked_projects, server/schema.ts and the tracking tools) and the   *)
(* GitHub API client (graphqlQuery / restRequest).                          *)
(***************************************************************************)
EXTENDS Integers, Sequences, FiniteSets, TLC

\* Largest row id the model lets an INSERT generate.
MaxId == 3

\* Input domains of the tracking tools.
Owners == {"deco-cx", "acme"}
Names == {"deco", "apps"}
ProjectIds == {"PVT_1", "PVT_2"}
Titles == {"Platform", "Roadmap"}
Orgs == {"deco-cx", "acme"}
\* Values `new Date()` can take when a row is inserted (clock readings).
Times == {1, 2}
\* Ids a REMOVE call may name: every id a row can have, and one no row has.
IdInputs == 1..(MaxId + 1)
\* Callers whose tracking calls run concurrently, statement by statement.
Callers == {"c1", "c2"}

\* Longest Retry-After header value the model lets GitHub send.
MaxHeaderLen == 2
\* Characters of a Retry-After header value.
HeaderChars == {"0", "1", "7", "-", " ", "x"}
\* HTTP statuses GitHub answers with.
Statuses == {200, 204, 401, 403, 404, 429, 500}
\* Tokens, queries and REST endpoints the client is called with.
Tokens == {"ghp_token"}
Queries == {"query ListIssues", "mutation CreateIssue"}
Endpoints == {<<"/user">>, <<"https://api.github.com", "/user">>}

VARIABLES
    repos,      \* rows of tracked_repositories
    projects,   \* rows of tracked_projects
    last,       \* the last call: tool, input, outcome, tables before it
    sent,       \* the HTTP requests the last GitHub client call sent
    inflight    \* per concurrent caller: the tracking call it is running

\* What a sequential tracking call never touches: the traffic to GitHub and
\* the calls of the concurrent callers.
net == <<sent, inflight>>

vars == <<repos, projects, last, sent, inflight>>

----------------------------------------------------------------------------
(* The embedded database: single statements over a table (a set of rows).  *)

\* integer("id").primaryKey(): SQLite gives a new row the largest rowid + 1.
NextRowId(table) ==
    IF table = {} THEN 1
    ELSE (CHOOSE m \in {r.id : r \in table} : \A r \in table : r.id <= m) + 1

\* SELECT ... WHERE cond LIMIT 1 without ORDER BY, as the possible results:
\* no row when none matches, otherwise the first matching row of SQLite's
\* scan of the table, which goes by ascending rowid (the id column).
SelectLimit1(matching) ==
    IF matching = {} THEN {<<>>}
    ELSE {<<r>> : r \in {m \in matching : \A q \in matching : m.id <= q.id}}

\* The same UPDATE without its WHERE clause.
SetIsActiveWhereId_EveryRow(table, id, v) ==
    {[r EXCEPT !.isActive = v] : r \in table}

\* UPDATE table SET is_active = v WHERE id = id
SetIsActiveWhereId(table, id, v) ==
    {IF r.id = id THEN [r EXCEPT !.isActive = v] ELSE r : r \in table}

\* UPDATE table SET title = t WHERE id = id
SetTitleWhereId(table, id, t) ==
    {IF r.id = id THEN [r EXCEPT !.title = t] ELSE r : r \in table}

\* The same DELETE without its WHERE clause.
DeleteWhereId_EveryRow(table, id) == {}

\* DELETE FROM table WHERE id = id
DeleteWhereId(table, id) == {r \in table : r.id # id}

\* .returning() of an UPDATE ... WHERE id = id: the updated row.
RowWithId(table, id) == CHOOSE r \in table : r.id = id

\* `new Date()` never reads earlier than a timestamp already stored.
ClockReads(table, now) == \A r \in table : r.createdAt <= now

\* Date.prototype.toISOString()
ToISOString(t) == [iso |-> t]

\* zod .optional().default(d): an omitted field reads as d.
ZodDefault(input, field, d) ==
    IF field \in DOMAIN input THEN input[field] ELSE d

Ok(value) == [ok |-> TRUE, value |-> value]
\* new Error(message): the message is kept as the parts it is built from.
Error(parts) == [message |-> parts]
Throw(error) == [ok |-> FALSE, error |-> error]

\* updated[0] of an UPDATE that matched no row is undefined.
ReadOfUndefined ==
    Error(<<"TypeError: Cannot read properties of undefined (reading 'id')">>)

\* The model lets a call INSERT while ids and clock readings last.
CanInsert(table, inserts, now) ==
    inserts => (NextRowId(table) <= MaxId /\ ClockReads(table, now))

Before == [repos |-> repos, projects |-> projects]

Call(tool, input, outcome) ==
    [tool |-> tool, input |-> input, outcome |-> outcome, before |-> Before]

----------------------------------------------------------------------------
(* Repository tracking tools.                                              *)

\* The `repository` object the tools return for a row.
RepositoryOut(r) ==
    [id |-> r.id, owner |-> r.owner, name |-> r.name,
     isActive |-> (r.isActive = 1), createdAt |-> ToISOString(r.createdAt)]

\* The lookup of ADD_TRACKED_REPOSITORY: rows of this owner, LIMIT 1.
ExistingForOwner(table, owner) ==
    SelectLimit1({r \in table : r.owner = owner})

\* existing.find((r) => r.name === context.name)
MatchingRepo(existing, name) ==
    {existing[i] : i \in {j \in 1..Len(existing) : existing[j].name = name}}

\* The row INSERTed for a repository that the lookup did not find.
NewRepositoryRow(table, owner, name, now) ==
    [id |-> NextRowId(table), owner |-> owner, name |-> name,
     isActive |-> 1, createdAt |-> now]

\* What ADD_TRACKED_REPOSITORY does after its lookup returned `existing`, on
\* the table as it is then, and what the call returns: UPDATE ... RETURNING
\* for an inactive match, nothing for an active one, INSERT ... RETURNING
\* when the lookup holds no row of that name.
AddRepositoryStatement(table, input, existing, now) ==
    LET matching == MatchingRepo(existing, input.name)
    IN  IF matching # {}
        THEN LET matchingRepo == CHOOSE r \in matching : TRUE
             IN  IF matchingRepo.isActive = 0
                 THEN LET updated ==
                              SetIsActiveWhereId(table, matchingRepo.id, 1)
                          returning ==
                              {r \in updated : r.id = matchingRepo.id}
                      IN  [table |-> updated,
                           outcome |->
                               IF returning = {} THEN Throw(ReadOfUndefined)
                               ELSE Ok(RepositoryOut(
                                        RowWithId(updated, matchingRepo.id)))]
                 ELSE [table |-> table,
                       outcome |-> Ok(RepositoryOut(matchingRepo))]
        ELSE LET row == NewRepositoryRow(table, input.owner, input.name, now)
             IN  [table |-> table \cup {row},
                  outcome |-> Ok(RepositoryOut(row))]

AddTrackedRepository(owner, name, now) ==
    /\ \E existing \in ExistingForOwner(repos, owner) :
         LET input == [owner |-> owner, name |-> name]
             done == AddRepositoryStatement(repos, input, existing, now)
         IN  /\ CanInsert(repos, MatchingRepo(existing, name) = {}, now)
             /\ repos' = done.table
             /\ last' = Call("ADD_TRACKED_REPOSITORY", input, done.outcome)
    /\ UNCHANGED <<projects, net>>

\* A LIST that selects every row whatever activeOnly is.
SelectList_IgnoresActiveOnly(table, activeOnly) == table

\* The rows a LIST call selects.
SelectList(table, activeOnly) ==
    IF activeOnly THEN {r \in table : r.isActive = 1} ELSE table

ListTrackedRepositories(input) ==
    LET activeOnly == ZodDefault(input, "activeOnly", TRUE)
    IN  /\ last' = Call("LIST_TRACKED_REPOSITORIES", input,
               Ok({RepositoryOut(r) : r \in SelectList(repos, activeOnly)}))
        /\ UNCHANGED <<repos, projects, net>>

\* The same statement with a soft remove that flips the flag.
RemoveWhereId_TogglesActive(table, id, hardDelete) ==
    IF hardDelete THEN DeleteWhereId(table, id)
    ELSE {IF r.id = id THEN [r EXCEPT !.isActive = 1 - r.isActive] ELSE r :
             r \in table}

\* The statement a REMOVE call runs on a table once the row is found.
RemoveWhereId(table, id, hardDelete) ==
    IF hardDelete THEN DeleteWhereId(table, id)
    ELSE SetIsActiveWhereId(table, id, 0)

RepositoryNotFound(id) ==
    Error(<<"Tracked repository with ID ", ToString(id), " not found">>)

\* The same call without the lookup that throws for an unknown id.
RemoveTrackedRepository_Unchecked(input) ==
    /\ repos' = RemoveWhereId(repos, input.id,
                              ZodDefault(input, "hardDelete", FALSE))
    /\ last' = Call("REMOVE_TRACKED_REPOSITORY", input,
                    Ok([success |-> TRUE, deletedId |-> input.id]))
    /\ UNCHANGED <<projects, net>>

RemoveTrackedRepository(input) ==
    LET hardDelete == ZodDefault(input, "hardDelete", FALSE)
        existing == SelectLimit1({r \in repos : r.id = input.id})
    IN  /\ IF existing = {<<>>}
           THEN /\ last' = Call("REMOVE_TRACKED_REPOSITORY", input,
                                Throw(RepositoryNotFound(input.id)))
                /\ repos' = repos
           ELSE /\ repos' = RemoveWhereId(repos, input.id, hardDelete)
                /\ last' = Call("REMOVE_TRACKED_REPOSITORY", input,
                                Ok([success |-> TRUE, deletedId |-> input.id]))
        /\ UNCHANGED <<projects, net>>

----------------------------------------------------------------------------
(* Project tracking tools.                                                 *)

\* The `project` object the tools return for a row.
ProjectOut(r) ==
    [id |-> r.id, projectId |-> r.projectId, title |-> r.title,
     organizationLogin |-> r.organizationLogin,
     isActive |-> (r.isActive = 1), createdAt |-> ToISOString(r.createdAt)]

\* The lookup of ADD_TRACKED_PROJECT: rows of this projectId, LIMIT 1.
ExistingForProjectId(table, projectId) ==
    SelectLimit1({r \in table : r.projectId = projectId})

\* The same update leaving the title of an active row as it was.
UpdateExistingProject_KeepsTitle(table, project, title) ==
    IF project.isActive = 0
    THEN SetTitleWhereId(SetIsActiveWhereId(table, project.id, 1),
                         project.id, title)
    ELSE table

\* UPDATE tracked_projects SET ... WHERE id = id, for a row the lookup found:
\* an inactive row is reactivated and retitled, an active one retitled.
UpdateExistingProject(table, project, title) ==
    IF project.isActive = 0
    THEN SetTitleWhereId(SetIsActiveWhereId(table, project.id, 1),
                         project.id, title)
    ELSE SetTitleWhereId(table, project.id, title)

\* The same INSERT leaving the new row inactive.
NewProjectRow_Inactive(table, projectId, title, organizationLogin, now) ==
    [id |-> NextRowId(table), projectId |-> projectId, title |-> title,
     organizationLogin |-> organizationLogin, isActive |-> 0,
     createdAt |-> now]

\* The row INSERTed for a project that the lookup did not find.
NewProjectRow(table, projectId, title, organizationLogin, now) ==
    [id |-> NextRowId(table), projectId |-> projectId, title |-> title,
     organizationLogin |-> organizationLogin, isActive |-> 1,
     createdAt |-> now]

\* A project_id column without its unique index.
ViolatesUniqueProjectId_NoIndex(table, row) == FALSE

\* project_id ... .unique(): the index refuses a second row of a projectId.
ViolatesUniqueProjectId(table, row) ==
    \E r \in table : r.projectId = row.projectId

UniqueConstraintFailed ==
    Error(<<"UNIQUE constraint failed: tracked_projects.project_id">>)

\* The same statement with an UPDATE that sets organization_login too.
AddProjectStatement_OverwritesOrganization(table, input, existing, now) ==
    IF Len(existing) > 0
    THEN LET project == existing[1]
             updated ==
                 {IF r.id = project.id
                  THEN [r EXCEPT
                           !.organizationLogin = input.organizationLogin]
                  ELSE r :
                     r \in UpdateExistingProject(table, project, input.title)}
             returning == {r \in updated : r.id = project.id}
         IN  [table |-> updated,
              outcome |-> IF returning = {} THEN Throw(ReadOfUndefined)
                          ELSE Ok(ProjectOut(RowWithId(updated, project.id)))]
    ELSE LET row == NewProjectRow(table, input.projectId, input.title,
                                  input.organizationLogin, now)
         IN  IF ViolatesUniqueProjectId(table, row)
             THEN [table |-> table, outcome |-> Throw(UniqueConstraintFailed)]
             ELSE [table |-> table \cup {row}, outcome |-> Ok(ProjectOut(row))]

\* The statement ADD_TRACKED_PROJECT runs after its lookup returned
\* `existing`, on the table as it is then, and what the call returns:
\* UPDATE ... RETURNING for a row the lookup found, INSERT ... RETURNING
\* otherwise.
AddProjectStatement(table, input, existing, now) ==
    IF Len(existing) > 0
    THEN LET project == existing[1]
             updated == UpdateExistingProject(table, project, input.title)
             returning == {r \in updated : r.id = project.id}
         IN  [table |-> updated,
              outcome |-> IF returning = {} THEN Throw(ReadOfUndefined)
                          ELSE Ok(ProjectOut(RowWithId(updated, project.id)))]
    ELSE LET row == NewProjectRow(table, input.projectId, input.title,
                                  input.organizationLogin, now)
         IN  IF ViolatesUniqueProjectId(table, row)
             THEN [table |-> table, outcome |-> Throw(UniqueConstraintFailed)]
             ELSE [table |-> table \cup {row}, outcome |-> Ok(ProjectOut(row))]

AddTrackedProject(projectId, title, organizationLogin, now) ==
    /\ \E existing \in ExistingForProjectId(projects, projectId) :
         LET input == [projectId |-> projectId, title |-> title,
                       organizationLogin |-> organizationLogin]
             done == AddProjectStatement(projects, input, existing, now)
         IN  /\ CanInsert(projects, Len(existing) = 0, now)
             /\ projects' = done.table
             /\ last' = Call("ADD_TRACKED_PROJECT", input, done.outcome)
    /\ UNCHANGED <<repos, net>>

ListTrackedProjects(input) ==
    LET activeOnly == ZodDefault(input, "activeOnly", TRUE)
    IN  /\ last' = Call("LIST_TRACKED_PROJECTS", input,
               Ok({ProjectOut(r) : r \in SelectList(projects, activeOnly)}))
        /\ UNCHANGED <<repos, projects, net>>

ProjectNotFound(id) ==
    Error(<<"Tracked project with ID ", ToString(id), " not found">>)

\* The same call running its DELETE or UPDATE on tracked_repositories too.
RemoveTrackedProject_BothTables(input) ==
    LET hardDelete == ZodDefault(input, "hardDelete", FALSE)
        existing == SelectLimit1({r \in projects : r.id = input.id})
    IN  /\ IF existing = {<<>>}
           THEN /\ last' = Call("REMOVE_TRACKED_PROJECT", input,
                                Throw(ProjectNotFound(input.id)))
                /\ projects' = projects
                /\ repos' = repos
           ELSE /\ projects' = RemoveWhereId(projects, input.id, hardDelete)
                /\ repos' = RemoveWhereId(repos, input.id, hardDelete)
                /\ last' = Call("REMOVE_TRACKED_PROJECT", input,
                                Ok([success |-> TRUE, deletedId |-> input.id]))
        /\ UNCHANGED net

RemoveTrackedProject(input) ==
    LET hardDelete == ZodDefault(input, "hardDelete", FALSE)
        existing == SelectLimit1({r \in projects : r.id = input.id})
    IN  /\ IF existing = {<<>>}
           THEN /\ last' = Call("REMOVE_TRACKED_PROJECT", input,
                                Throw(ProjectNotFound(input.id)))
                /\ projects' = projects
           ELSE /\ projects' = RemoveWhereId(projects, input.id, hardDelete)
                /\ last' = Call("REMOVE_TRACKED_PROJECT", input,
                                Ok([success |-> TRUE, deletedId |-> input.id]))
        /\ UNCHANGED <<repos, net>>

----------------------------------------------------------------------------
(* Concurrent calls of the project tracking tools: each call is its lookup *)
(* (one SELECT) and then its write (one UPDATE, INSERT or DELETE), and the  *)
(* statements of different callers interleave; no transaction spans them.  *)

Idle(c) == inflight[c].pc \in {"idle", "done"}

Found(c, tool) == inflight[c].pc = "found" /\ inflight[c].tool = tool

Finished(tool, input, outcome) ==
    [pc |-> "done", tool |-> tool, input |-> input, outcome |-> outcome]

\* ADD_TRACKED_PROJECT up to the end of its lookup.
LookupAddTrackedProject(c, projectId, title, organizationLogin) ==
    /\ Idle(c)
    /\ \E existing \in ExistingForProjectId(projects, projectId) :
           inflight' = [inflight EXCEPT ![c] =
               [pc |-> "found", tool |-> "ADD_TRACKED_PROJECT",
                input |-> [projectId |-> projectId, title |-> title,
                           organizationLogin |-> organizationLogin],
                existing |-> existing]]
    /\ UNCHANGED <<repos, projects, last, sent>>

\* ADD_TRACKED_PROJECT from its lookup on: the write and the return.
WriteAddTrackedProject(c, now) ==
    /\ Found(c, "ADD_TRACKED_PROJECT")
    /\ LET call == inflight[c]
           done == AddProjectStatement(projects, call.input, call.existing, now)
       IN  /\ CanInsert(projects, Len(call.existing) = 0, now)
           /\ projects' = done.table
           /\ inflight' = [inflight EXCEPT ![c] =
                  Finished(call.tool, call.input, done.outcome)]
    /\ UNCHANGED <<repos, last, sent>>

\* REMOVE_TRACKED_PROJECT up to the end of its lookup: it throws there when
\* no row has the id.
LookupRemoveTrackedProject(c, input) ==
    /\ Idle(c)
    /\ \E existing \in SelectLimit1({r \in projects : r.id = input.id}) :
           inflight' = [inflight EXCEPT ![c] =
               IF Len(existing) = 0
               THEN Finished("REMOVE_TRACKED_PROJECT", input,
                             Throw(ProjectNotFound(input.id)))
               ELSE [pc |-> "found", tool |-> "REMOVE_TRACKED_PROJECT",
                     input |-> input, existing |-> existing]]
    /\ UNCHANGED <<repos, projects, last, sent>>

\* REMOVE_TRACKED_PROJECT from its lookup on: the DELETE or UPDATE.
WriteRemoveTrackedProject(c) ==
    /\ Found(c, "REMOVE_TRACKED_PROJECT")
    /\ LET call == inflight[c]
       IN  /\ projects' = RemoveWhereId(projects, call.input.id,
                                        ZodDefault(call.input, "hardDelete",
                                                   FALSE))
           /\ inflight' = [inflight EXCEPT ![c] =
                  Finished(call.tool, call.input,
                           Ok([success |-> TRUE,
                               deletedId |-> call.input.id]))]
    /\ UNCHANGED <<repos, last, sent>>

\* ADD_TRACKED_REPOSITORY up to the end of its lookup.
LookupAddTrackedRepository(c, owner, name) ==
    /\ Idle(c)
    /\ \E existing \in ExistingForOwner(repos, owner) :
           inflight' = [inflight EXCEPT ![c] =
               [pc |-> "found", tool |-> "ADD_TRACKED_REPOSITORY",
                input |-> [owner |-> owner, name |-> name],
                existing |-> existing]]
    /\ UNCHANGED <<repos, projects, last, sent>>

\* ADD_TRACKED_REPOSITORY from its lookup on: the UPDATE or INSERT, if it
\* runs one, and the return.
WriteAddTrackedRepository(c, now) ==
    /\ Found(c, "ADD_TRACKED_REPOSITORY")
    /\ LET call == inflight[c]
           done == AddRepositoryStatement(repos, call.input, call.existing,
                                          now)
       IN  /\ CanInsert(repos,
                        MatchingRepo(call.existing, call.input.name) = {}, now)
           /\ repos' = done.table
           /\ inflight' = [inflight EXCEPT ![c] =
                  Finished(call.tool, call.input, done.outcome)]
    /\ UNCHANGED <<projects, last, sent>>

----------------------------------------------------------------------------
(* The GitHub API client (lib/github.ts): one fetch, then the response is  *)
(* turned into the returned value or the thrown error.                     *)

GITHUB_API_URL == "https://api.github.com"
GITHUB_GRAPHQL_URL == "https://api.github.com/graphql"

\* response.status === 429
TooManyRequests == 429
\* error.retryAfter when the response has no usable Retry-After header.
DefaultRetryAfter == 60

\* JSON values of a response body.
JNull == [json |-> "null"]
JString(str) == [json |-> "string", value |-> str]
JObject(fields) == [json |-> "object", fields |-> fields]

\* JavaScript numbers: an integer, or NaN.
Num(n) == [nan |-> FALSE, n |-> n]
NaN == [nan |-> TRUE, n |-> 0]

Digits == <<"0", "1", "2", "3", "4", "5", "6", "7", "8", "9">>
IsDigit(ch) == \E i \in 1..10 : Digits[i] = ch
DigitValue(ch) == (CHOOSE i \in 1..10 : Digits[i] = ch) - 1

RECURSIVE SkipWhiteSpace(_)
SkipWhiteSpace(str) ==
    IF str # <<>> /\ Head(str) = " " THEN SkipWhiteSpace(Tail(str)) ELSE str

\* The longest prefix of str made of digits.
RECURSIVE DigitPrefix(_)
DigitPrefix(str) ==
    IF str # <<>> /\ IsDigit(Head(str))
    THEN <<Head(str)>> \o DigitPrefix(Tail(str))
    ELSE <<>>

\* The number a string of digits denotes in base 10, read after `acc`.
RECURSIVE DecimalValue(_, _)
DecimalValue(digits, acc) ==
    IF digits = <<>> THEN acc
    ELSE DecimalValue(Tail(digits), 10 * acc + DigitValue(Head(digits)))

\* parseInt(str, 10): leading white space is skipped, a sign is read, then
\* the longest run of digits; NaN when there is no digit there.
ParseInt(str) ==
    LET trimmed == SkipWhiteSpace(str)
        signed == trimmed # <<>> /\ Head(trimmed) \in {"-", "+"}
        sign == IF trimmed # <<>> /\ Head(trimmed) = "-" THEN -1 ELSE 1
        digits == DigitPrefix(IF signed THEN Tail(trimmed) ELSE trimmed)
    IN  IF digits = <<>> THEN NaN ELSE Num(sign * DecimalValue(digits, 0))

\* response.headers.get(name): null when the response has no such header.
NoHeader == [present |-> FALSE, value |-> <<>>]
Header(value) == [present |-> TRUE, value |-> value]

\* `${retryAfter}` in a template literal: null prints as "null".
HeaderText(header) ==
    IF header.present THEN header.value ELSE <<"n", "u", "l", "l">>

\* A string or null used as a condition: only a non-empty string is truthy.
TruthyHeader(header) == header.present /\ header.value # <<>>

\* error.retryAfter without the default for a missing header.
RetryAfterOf_NoDefault(header) == ParseInt(header.value)

\* error.retryAfter = retryAfter ? parseInt(retryAfter, 10) : 60
RetryAfterOf(header) ==
    IF TruthyHeader(header) THEN ParseInt(header.value)
    ELSE Num(DefaultRetryAfter)

\* The GitHubRateLimitError thrown on a 429.
RateLimitError(response) ==
    [message |-> <<"Rate limit exceeded. Retry after ",
                   HeaderText(response.retryAfter), " seconds.">>,
     retryAfter |-> RetryAfterOf(response.retryAfter)]

\* response.ok: the status is in the range 200-299.
ResponseOk(response) == response.status >= 200 /\ response.status <= 299

\* errorBody.message used as a condition, errorBody being the parsed body:
\* reading .message of null throws (and the catch ignores it), a missing or
\* empty message is falsy.
HasTruthyMessage(body) ==
    /\ body.parses
    /\ body.json.json = "object"
    /\ "message" \in DOMAIN body.json.fields
    /\ body.json.fields.message # ""

\* response.json() of a body that is no JSON.
JsonSyntaxError == Error(<<"SyntaxError: Unexpected token in JSON">>)
\* result.errors of a body that is the JSON null.
ReadOfNull ==
    Error(<<"TypeError: Cannot read properties of null (reading 'errors')">>)

\* array.join(sep) of strings, as the parts of the joined string.
RECURSIVE Join(_, _)
Join(strings, sep) ==
    IF Len(strings) <= 1 THEN strings
    ELSE <<Head(strings), sep>> \o Join(Tail(strings), sep)

\* errors.map((e) => e.message)
RECURSIVE Messages(_)
Messages(errors) ==
    IF errors = <<>> THEN <<>>
    ELSE <<Head(errors).message>> \o Messages(Tail(errors))

\* The same with the data returned whenever the response has it, the errors
\* being looked at only when it has none.
GraphqlOutcome_DataBeforeErrors(response) ==
    IF response.status = TooManyRequests
    THEN Throw(RateLimitError(response))
    ELSE IF ~ResponseOk(response)
    THEN Throw(Error(<<"GitHub API request failed: ",
                       ToString(response.status), " ", response.statusText>>))
    ELSE IF ~response.body.parses THEN Throw(JsonSyntaxError)
    ELSE IF response.body.json = JNull THEN Throw(ReadOfNull)
    ELSE LET result == response.body.json.fields
         IN  IF "data" \in DOMAIN result /\ result.data # JNull
             THEN Ok(result.data)
             ELSE IF "errors" \in DOMAIN result /\ Len(result.errors) > 0
             THEN Throw(Error(<<"GraphQL errors: ">>
                              \o Join(Messages(result.errors), ", ")))
             ELSE Throw(Error(<<"GraphQL response missing data">>))

\* What graphqlQuery returns or throws for a response.
GraphqlOutcome(response) ==
    IF response.status = TooManyRequests
    THEN Throw(RateLimitError(response))
    ELSE IF ~ResponseOk(response)
    THEN Throw(Error(<<"GitHub API request failed: ",
                       ToString(response.status), " ", response.statusText>>))
    ELSE IF ~response.body.parses THEN Throw(JsonSyntaxError)
    ELSE IF response.body.json = JNull THEN Throw(ReadOfNull)
    ELSE LET result == response.body.json.fields
         IN  IF "errors" \in DOMAIN result /\ Len(result.errors) > 0
             THEN Throw(Error(<<"GraphQL errors: ">>
                              \o Join(Messages(result.errors), ", ")))
             ELSE IF "data" \notin DOMAIN result \/ result.data = JNull
             THEN Throw(Error(<<"GraphQL response missing data">>))
             ELSE Ok(result.data)

\* The errorMessage without the part read from the response body.
RestErrorMessage_NoBody(response) ==
    <<"GitHub REST API request failed: ", ToString(response.status), " ",
      response.statusText>>

\* The errorMessage restRequest builds for a response that is not ok: status
\* and status text, then the body's message when the body parses and has one.
RestErrorMessage(response) ==
    <<"GitHub REST API request failed: ", ToString(response.status), " ",
      response.statusText>>
        \o (IF HasTruthyMessage(response.body)
            THEN <<" - ", response.body.json.fields.message>>
            ELSE <<>>)

\* What restRequest returns or throws for a response.
RestOutcome(response) ==
    IF response.status = TooManyRequests
    THEN Throw(RateLimitError(response))
    ELSE IF ~ResponseOk(response)
    THEN Throw(Error(RestErrorMessage(response)))
    ELSE IF response.status = 204 THEN Ok(JObject(<<>>))
    ELSE IF ~response.body.parses THEN Throw(JsonSyntaxError)
    ELSE Ok(response.body.json)

\* A client call that sent its request and awaits the response of fetch.
Awaiting(fn, input) ==
    [tool |-> fn, input |-> input, pc |-> "awaiting", before |-> Before]

\* A client call that returned or threw, with the response GitHub gave.
Settled(call, response, outcome) ==
    [tool |-> call.tool, input |-> call.input, pc |-> "settled",
     response |-> response, outcome |-> outcome, before |-> call.before]

IsAwaiting(fn) == last.tool = fn /\ last.pc = "awaiting"

\* No client call is under way (one call at a time uses the model's client).
ClientFree == last.tool \in {"graphqlQuery", "restRequest"} => last.pc = "settled"

Authorization(token) == <<"Bearer ", token>>

\* The request graphqlQuery sends.
GraphqlRequest(token, query, variables) ==
    [url |-> GITHUB_GRAPHQL_URL, method |-> "POST",
     authorization |-> Authorization(token),
     body |-> [query |-> query, variables |-> variables]]

\* graphqlQuery(query, variables) of createGitHubClient(token), up to its
\* await of fetch: the request is sent.
GraphqlQuery(token, query, variables) ==
    /\ ClientFree
    /\ sent' = <<GraphqlRequest(token, query, variables)>>
    /\ last' = Awaiting("graphqlQuery",
                        [query |-> query, variables |-> variables])
    /\ UNCHANGED <<repos, projects, inflight>>

\* The same with one retry: on a 429 the request is sent again and the call
\* awaits the second response.
GraphqlResponse_RetriesOnce(responses) ==
    /\ IsAwaiting("graphqlQuery")
    /\ \E response \in responses :
           IF response.status = TooManyRequests /\ Len(sent) = 1
           THEN sent' = sent \o sent /\ last' = last
           ELSE /\ last' = Settled(last, response, GraphqlOutcome(response))
                /\ sent' = sent
    /\ UNCHANGED <<repos, projects, inflight>>

\* graphqlQuery from the response on: it returns or throws.
GraphqlResponse(responses) ==
    /\ IsAwaiting("graphqlQuery")
    /\ \E response \in responses :
           last' = Settled(last, response, GraphqlOutcome(response))
    /\ UNCHANGED <<repos, projects, sent, inflight>>

\* endpoint.startsWith("http") ? endpoint : `${GITHUB_API_URL}${endpoint}`
RestUrl(endpoint) ==
    IF Head(endpoint) \in {"http://", "https://", GITHUB_API_URL}
    THEN endpoint
    ELSE <<GITHUB_API_URL>> \o endpoint

\* restRequest(endpoint, options) of createGitHubClient(token), up to its
\* await of fetch: the request is sent.
RestRequest(token, endpoint, method) ==
    /\ ClientFree
    /\ sent' = <<[url |-> RestUrl(endpoint), method |-> method,
                  authorization |-> Authorization(token)]>>
    /\ last' = Awaiting("restRequest",
                        [endpoint |-> endpoint, method |-> method])
    /\ UNCHANGED <<repos, projects, inflight>>

\* restRequest from the response on: it returns or throws.
RestResponse(responses) ==
    /\ IsAwaiting("restRequest")
    /\ \E response \in responses :
           last' = Settled(last, response, RestOutcome(response))
    /\ UNCHANGED <<repos, projects, sent, inflight>>

----------------------------------------------------------------------------
(* The GitHub-backed tools (tools/projects.ts, tools/issues.ts): each       *)
(* checks the request-scoped state, then calls the client and reshapes what *)
(* it returns.                                                              *)

\* The tool lists, in the order of their arrays.
projectTools ==
    <<"LIST_GITHUB_PROJECTS", "GET_PROJECT_DETAILS", "CREATE_PROJECT",
      "UPDATE_PROJECT", "DELETE_PROJECT", "LIST_PROJECT_ITEMS",
      "ADD_ITEM_TO_PROJECT">>

issueTools ==
    <<"LIST_ISSUES", "GET_ISSUE", "CREATE_ISSUE", "UPDATE_ISSUE",
      "CLOSE_ISSUE", "ADD_ISSUE_COMMENT", "LIST_ISSUE_COMMENTS",
      "ADD_LABELS_TO_ISSUE", "REMOVE_LABELS_FROM_ISSUE", "ASSIGN_ISSUE",
      "UNASSIGN_ISSUE">>

trackingTools ==
    <<"ADD_TRACKED_REPOSITORY", "LIST_TRACKED_REPOSITORIES",
      "REMOVE_TRACKED_REPOSITORY", "ADD_TRACKED_PROJECT",
      "LIST_TRACKED_PROJECTS", "REMOVE_TRACKED_PROJECT">>

metadataTools == <<"GET_TOOL_METADATA">>

\* tools/user.ts: the tools of the signed-in user.
userTools == <<"GET_USER">>

\* The elements of a sequence.
Range(seq) == {seq[i] : i \in 1..Len(seq)}

GitHubTools == Range(projectTools) \cup Range(issueTools)

\* The fields a tool's inputSchema declares without .optional().
RequiredFields(tool) ==
    CASE tool = "LIST_GITHUB_PROJECTS" -> {"organizationLogin"}
      [] tool = "CREATE_PROJECT" -> {"organizationLogin", "title"}
      [] tool \in {"GET_PROJECT_DETAILS", "UPDATE_PROJECT", "DELETE_PROJECT",
                   "LIST_PROJECT_ITEMS"} -> {"projectId"}
      [] tool = "ADD_ITEM_TO_PROJECT" -> {"projectId", "contentId"}
      [] tool = "LIST_ISSUES" -> {"owner", "repo"}
      [] tool = "CREATE_ISSUE" -> {"owner", "repo", "title"}
      [] tool \in {"GET_ISSUE", "UPDATE_ISSUE", "CLOSE_ISSUE",
                   "LIST_ISSUE_COMMENTS"} -> {"owner", "repo", "issueNumber"}
      [] tool = "ADD_ISSUE_COMMENT" ->
             {"owner", "repo", "issueNumber", "body"}
      [] tool \in {"ADD_LABELS_TO_ISSUE", "REMOVE_LABELS_FROM_ISSUE"} ->
             {"owner", "repo", "issueNumber", "labelIds"}
      [] tool \in {"ASSIGN_ISSUE", "UNASSIGN_ISSUE"} ->
             {"owner", "repo", "issueNumber", "assigneeIds"}

\* The tools whose inputSchema has `first: z.number().optional().default(20)`.
PagedTools ==
    {"LIST_GITHUB_PROJECTS", "LIST_PROJECT_ITEMS", "LIST_ISSUES",
     "LIST_ISSUE_COMMENTS"}

\* .default(20) of `first`, and the 20 of `context.first || 20`.
DefaultFirst == 20
\* The 100 of Math.min(..., 100).
MaxFirst == 100

\* The ZodError of an input that lacks a required field.
ZodError == Error(<<"ZodError: Required">>)

\* inputSchema.parse(input): an input lacking a required field is refused,
\* otherwise the defaults are filled in and the result is the tool's context.
ZodParse(tool, input) ==
    LET missing == RequiredFields(tool) \ DOMAIN input
        withFirst == [f \in DOMAIN input \cup {"first"} |->
                         IF f \in DOMAIN input THEN input[f]
                         ELSE DefaultFirst]
    IN  IF missing # {} THEN Throw(ZodError)
        ELSE IF tool \in PagedTools THEN Ok(withFirst)
        ELSE Ok(input)

\* A string field of an object used as a condition: undefined (of an object
\* that is itself undefined, too) and "" are falsy.
TruthyString(object, field) ==
    field \in DOMAIN object /\ object[field] # ""

\* object.field || fallback, for a number field: undefined and 0 are falsy.
NumberOrElse(object, field, fallback) ==
    IF field \in DOMAIN object /\ object[field] # 0 THEN object[field]
    ELSE fallback

\* The same page size without the cap.
PageSize_Uncapped(context) == NumberOrElse(context, "first", DefaultFirst)

\* Math.min(context.first || 20, 100)
PageSize(context) ==
    LET first == NumberOrElse(context, "first", DefaultFirst)
    IN  IF first < MaxFirst THEN first ELSE MaxFirst

\* The object a call passes as variables: the fields whose value is defined
\* (JSON.stringify leaves out the undefined ones).
Defined(context, fields) == [f \in fields \cap DOMAIN context |-> context[f]]

\* An object literal with one more field.
With(object, field, value) ==
    [f \in DOMAIN object \cup {field} |->
        IF f = field THEN value ELSE object[f]]

\* JSON arrays and the undefined of a field that is not there.
JArray(items) == [json |-> "array", items |-> items]
JUndefined == [json |-> "undefined"]

\* value.a.b.c for the path <<a, b, c>>: reading a field of null or of
\* undefined throws, a field that is not there reads as undefined.
RECURSIVE ReadPath(_, _)
ReadPath(value, path) ==
    IF path = <<>> THEN [ok |-> TRUE, value |-> value]
    ELSE IF value.json \in {"null", "undefined"}
    THEN [ok |-> FALSE, value |-> JUndefined]
    ELSE IF value.json # "object" \/ Head(path) \notin DOMAIN value.fields
    THEN ReadPath(JUndefined, Tail(path))
    ELSE ReadPath(value.fields[Head(path)], Tail(path))

\* The TypeError of such a read.
ReadOfMissing ==
    Error(<<"TypeError: Cannot read properties of undefined or null">>)

\* The node id helper a tool calls before its mutation, if any:
\* getRepositoryNodeId, getIssueNodeId, or CREATE_PROJECT's own GetOrgId query.
LookupQuery(tool) ==
    CASE tool = "CREATE_PROJECT" -> "GetOrgId"
      [] tool = "CREATE_ISSUE" -> "GetRepositoryId"
      [] tool \in {"UPDATE_ISSUE", "CLOSE_ISSUE", "ADD_ISSUE_COMMENT",
                   "ADD_LABELS_TO_ISSUE", "REMOVE_LABELS_FROM_ISSUE",
                   "ASSIGN_ISSUE", "UNASSIGN_ISSUE"} -> "GetIssueId"
      [] OTHER -> "none"

\* The variables of the node id query.
LookupVariables(tool, context, orgLogin) ==
    CASE LookupQuery(tool) = "GetOrgId" -> [login |-> orgLogin]
      [] LookupQuery(tool) = "GetRepositoryId" ->
             [owner |-> context.owner, repo |-> context.repo]
      [] LookupQuery(tool) = "GetIssueId" ->
             [owner |-> context.owner, repo |-> context.repo,
              issueNumber |-> context.issueNumber]

\* Where the node id is read in the data of the node id query.
LookupPath(query) ==
    CASE query = "GetOrgId" -> <<"organization", "id">>
      [] query = "GetRepositoryId" -> <<"repository", "id">>
      [] query = "GetIssueId" -> <<"repository", "issue", "id">>

\* The query or mutation of a tool, by the name it has in its text.
MainQuery(tool) ==
    CASE tool = "LIST_GITHUB_PROJECTS" -> "ListProjects"
      [] tool = "GET_PROJECT_DETAILS" -> "GetProject"
      [] tool = "CREATE_PROJECT" -> "CreateProject"
      [] tool = "UPDATE_PROJECT" -> "UpdateProject"
      [] tool = "DELETE_PROJECT" -> "DeleteProject"
      [] tool = "LIST_PROJECT_ITEMS" -> "ListProjectItems"
      [] tool = "ADD_ITEM_TO_PROJECT" -> "AddItemToProject"
      [] tool = "LIST_ISSUES" -> "ListIssues"
      [] tool = "GET_ISSUE" -> "GetIssue"
      [] tool = "CREATE_ISSUE" -> "CreateIssue"
      [] tool = "UPDATE_ISSUE" -> "UpdateIssue"
      [] tool = "CLOSE_ISSUE" -> "CloseIssue"
      [] tool = "ADD_ISSUE_COMMENT" -> "AddComment"
      [] tool = "LIST_ISSUE_COMMENTS" -> "ListComments"
      [] tool = "ADD_LABELS_TO_ISSUE" -> "AddLabels"
      [] tool = "REMOVE_LABELS_FROM_ISSUE" -> "RemoveLabels"
      [] tool = "ASSIGN_ISSUE" -> "AssignIssue"
      [] tool = "UNASSIGN_ISSUE" -> "UnassignIssue"

\* states: context.state ? [context.state] : undefined
WithStates(variables, context) ==
    IF TruthyString(context, "state")
    THEN With(variables, "states", <<context.state>>)
    ELSE variables

\* The variables a tool passes with its query or mutation; nodeId is what
\* its node id helper returned.
MainVariables(tool, context, orgLogin, nodeId) ==
    CASE tool = "LIST_GITHUB_PROJECTS" ->
             [login |-> orgLogin, first |-> PageSize(context)]
      [] tool \in {"GET_PROJECT_DETAILS", "DELETE_PROJECT"} ->
             [projectId |-> context.projectId]
      [] tool = "CREATE_PROJECT" ->
             [ownerId |-> nodeId, title |-> context.title]
      [] tool = "UPDATE_PROJECT" ->
             Defined(context, {"projectId", "title", "shortDescription",
                               "readme", "public"})
      [] tool = "LIST_PROJECT_ITEMS" ->
             [projectId |-> context.projectId, first |-> PageSize(context)]
      [] tool = "ADD_ITEM_TO_PROJECT" ->
             [projectId |-> context.projectId,
              contentId |-> context.contentId]
      [] tool = "LIST_ISSUES" ->
             With(WithStates(Defined(context, {"owner", "repo", "labels"}),
                             context),
                  "first", PageSize(context))
      [] tool = "GET_ISSUE" ->
             [owner |-> context.owner, repo |-> context.repo,
              issueNumber |-> context.issueNumber]
      [] tool = "CREATE_ISSUE" ->
             With(Defined(context, {"title", "body", "assigneeIds",
                                    "labelIds", "milestoneId"}),
                  "repositoryId", nodeId)
      [] tool = "UPDATE_ISSUE" ->
             With(Defined(context, {"title", "body", "state"}),
                  "issueId", nodeId)
      [] tool = "CLOSE_ISSUE" ->
             With(Defined(context, {"stateReason"}), "issueId", nodeId)
      [] tool = "ADD_ISSUE_COMMENT" ->
             [subjectId |-> nodeId, body |-> context.body]
      [] tool = "LIST_ISSUE_COMMENTS" ->
             [owner |-> context.owner, repo |-> context.repo,
              issueNumber |-> context.issueNumber,
              first |-> PageSize(context)]
      [] tool \in {"ADD_LABELS_TO_ISSUE", "REMOVE_LABELS_FROM_ISSUE"} ->
             [labelableId |-> nodeId, labelIds |-> context.labelIds]
      [] tool \in {"ASSIGN_ISSUE", "UNASSIGN_ISSUE"} ->
             [assignableId |-> nodeId, assigneeIds |-> context.assigneeIds]

\* Where a tool reads what it returns in the data of its query or mutation.
ResultPath(tool) ==
    CASE tool = "LIST_GITHUB_PROJECTS" ->
             <<"organization", "projectsV2", "nodes">>
      [] tool = "GET_PROJECT_DETAILS" -> <<"node">>
      [] tool = "CREATE_PROJECT" -> <<"createProjectV2", "projectV2">>
      [] tool = "UPDATE_PROJECT" -> <<"updateProjectV2", "projectV2">>
      [] tool = "DELETE_PROJECT" -> <<"deleteProjectV2", "projectV2", "id">>
      [] tool = "LIST_PROJECT_ITEMS" -> <<"node", "items", "nodes">>
      [] tool = "ADD_ITEM_TO_PROJECT" -> <<"addProjectV2ItemById", "item">>
      [] tool = "LIST_ISSUES" -> <<"repository", "issues", "nodes">>
      [] tool = "GET_ISSUE" -> <<"repository", "issue">>
      [] tool = "CREATE_ISSUE" -> <<"createIssue", "issue">>
      [] tool = "UPDATE_ISSUE" -> <<"updateIssue", "issue">>
      [] tool = "CLOSE_ISSUE" -> <<"closeIssue", "issue">>
      [] tool = "ADD_ISSUE_COMMENT" -> <<"addComment", "commentEdge", "node">>
      [] tool = "LIST_ISSUE_COMMENTS" ->
             <<"repository", "issue", "comments", "nodes">>
      [] tool = "ADD_LABELS_TO_ISSUE" ->
             <<"addLabelsToLabelable", "labelable", "labels", "nodes">>
      [] tool = "REMOVE_LABELS_FROM_ISSUE" ->
             <<"removeLabelsFromLabelable", "labelable", "labels", "nodes">>
      [] tool = "ASSIGN_ISSUE" ->
             <<"addAssigneesToAssignable", "assignable", "assignees",
               "nodes">>
      [] tool = "UNASSIGN_ISSUE" ->
             <<"removeAssigneesFromAssignable", "assignable", "assignees",
               "nodes">>

\* What a tool reads of the data besides: counts next to the main result.
ExtraPaths(tool) ==
    CASE tool = "GET_PROJECT_DETAILS" -> {<<"node", "items", "totalCount">>}
      [] tool = "LIST_ISSUES" -> {<<"repository", "issues", "totalCount">>}
      [] tool = "GET_ISSUE" ->
             {<<"repository", "issue", "labels", "nodes">>,
              <<"repository", "issue", "assignees", "nodes">>,
              <<"repository", "issue", "comments", "totalCount">>}
      [] OTHER -> {}

\* What the .map of a list tool reads of each node.
NodePaths(tool) ==
    CASE tool = "LIST_ISSUES" -> {<<"labels", "nodes">>,
                                  <<"assignees", "nodes">>}
      [] tool = "LIST_PROJECT_ITEMS" -> {<<"content", "__typename">>}
      [] OTHER -> {}

JNumber(n) == [json |-> "number", value |-> n]
JBool(b) == [json |-> "boolean", value |-> b]

\* The value of a path known to be readable.
At(value, path) == ReadPath(value, path).value

\* { ...object, field: value }
Spread(object, field, value) == JObject(With(object.fields, field, value))

\* What the .map of a list tool makes of one node.
MapNode(tool, node) ==
    CASE tool = "LIST_ISSUES" ->
             Spread(Spread(node, "labels", At(node, <<"labels", "nodes">>)),
                    "assignees", At(node, <<"assignees", "nodes">>))
      [] tool = "LIST_PROJECT_ITEMS" ->
             JObject([id |-> At(node, <<"id">>),
                      type |-> At(node, <<"content", "__typename">>),
                      title |-> At(node, <<"content", "title">>),
                      url |-> At(node, <<"content", "url">>),
                      state |-> At(node, <<"content", "state">>),
                      number |-> At(node, <<"content", "number">>)])

\* The object a tool returns for the data of its query or mutation.
Returned(tool, data) ==
    LET main == At(data, ResultPath(tool))
        MapNodes(t, nodes) == [i \in 1..Len(nodes) |-> MapNode(t, nodes[i])]
    IN  CASE tool = "LIST_GITHUB_PROJECTS" -> JObject([projects |-> main])
          [] tool = "GET_PROJECT_DETAILS" ->
                 JObject([project |->
                     Spread(main, "itemsCount",
                            At(data, <<"node", "items", "totalCount">>))])
          [] tool \in {"CREATE_PROJECT", "UPDATE_PROJECT"} ->
                 JObject([project |-> main])
          [] tool = "DELETE_PROJECT" ->
                 JObject([success |-> JBool(TRUE), deletedProjectId |-> main])
          [] tool = "LIST_PROJECT_ITEMS" ->
                 JObject([items |-> JArray(MapNodes(tool, main.items))])
          [] tool = "ADD_ITEM_TO_PROJECT" -> JObject([item |-> main])
          [] tool = "LIST_ISSUES" ->
                 JObject([issues |-> JArray(MapNodes(tool, main.items)),
                          totalCount |->
                              At(data, <<"repository", "issues",
                                         "totalCount">>)])
          [] tool = "GET_ISSUE" ->
                 JObject([issue |->
                     Spread(Spread(Spread(main,
                         "labels", At(main, <<"labels", "nodes">>)),
                         "assignees", At(main, <<"assignees", "nodes">>)),
                         "commentsCount",
                         At(main, <<"comments", "totalCount">>))])
          [] tool \in {"CREATE_ISSUE", "UPDATE_ISSUE", "CLOSE_ISSUE"} ->
                 JObject([issue |-> main])
          [] tool = "ADD_ISSUE_COMMENT" -> JObject([comment |-> main])
          [] tool = "LIST_ISSUE_COMMENTS" -> JObject([comments |-> main])
          [] tool \in {"ADD_LABELS_TO_ISSUE", "REMOVE_LABELS_FROM_ISSUE"} ->
                 JObject([labels |-> main])
          [] tool \in {"ASSIGN_ISSUE", "UNASSIGN_ISSUE"} ->
                 JObject([assignees |-> main])

\* Whether the reads a tool makes of the data all go through: the path of
\* its result, the counts next to it, the spread of an object result, and
\* for a tool that maps over nodes the list and the reads of each node.
Readable(tool, data) ==
    LET main == ReadPath(data, ResultPath(tool))
    IN  /\ main.ok
        /\ \A p \in ExtraPaths(tool) : ReadPath(data, p).ok
        /\ NodePaths(tool) # {} =>
               /\ main.value.json = "array"
               /\ \A i \in 1..Len(main.value.items) :
                      \A p \in NodePaths(tool) :
                          ReadPath(main.value.items[i], p).ok

\* What a tool does with the data graphqlQuery returned: it returns the
\* reshaped result, or a read of it throws.
Reshape(tool, data) ==
    IF Readable(tool, data) THEN Ok(Returned(tool, data))
    ELSE Throw(ReadOfMissing)

TokenNotConfigured ==
    Error(<<"GitHub token not configured. Please configure your app with a GitHub Personal Access Token.">>)

OrganizationRequired ==
    Error(<<"Organization login is required. Provide it in the input or set a default organization in app configuration.">>)

\* The tools that take the organization of the input or the default one.
OrgTools == {"LIST_GITHUB_PROJECTS", "CREATE_PROJECT"}

\* The same check taking any state as one that has a token.
HasGithubToken_Unchecked(state) == TRUE

\* state?.githubToken as a condition.
HasGithubToken(state) == TruthyString(state, "githubToken")

\* The token handed to createGitHubClient.
GithubTokenOf(state) ==
    IF "githubToken" \in DOMAIN state THEN state.githubToken ELSE "undefined"

\* context.organizationLogin || state.defaultOrganization, "" standing for
\* every falsy outcome.
OrgLoginOf(context, state) ==
    IF TruthyString(context, "organizationLogin")
    THEN context.organizationLogin
    ELSE IF TruthyString(state, "defaultOrganization")
    THEN state.defaultOrganization
    ELSE ""

\* A tool call awaiting the response to the request it sent last: the node id
\* query (step "lookup") or the tool's own query or mutation (step "main").
ToolAwaiting(tool, input, state, context, orgLogin, step) ==
    [tool |-> tool, input |-> input, state |-> state, context |-> context,
     orgLogin |-> orgLogin, step |-> step, pc |-> "awaiting",
     failed |-> {}, before |-> Before]

\* A tool call that returned or threw; `failed` names the steps that failed
\* (for GET_TOOL_METADATA, the tools whose createTool threw).
ToolSettled(tool, input, state, outcome, failed) ==
    [tool |-> tool, input |-> input, state |-> state, pc |-> "settled",
     outcome |-> outcome, failed |-> failed, before |-> Before]

\* No tool call is under way (one call at a time uses the model's tools).
ToolFree == last.tool = "none"

IsToolAwaiting(step) ==
    /\ last.tool \in GitHubTools
    /\ last.pc = "awaiting"
    /\ last.step = step

\* execute of a GitHub-backed tool from the parse of its input to its first
\* await: it throws for an input the schema refuses, for a state without
\* token and (the tools that need one) without organization, and otherwise
\* sends the first request.
InvokeTool(tool, state, input) ==
    /\ ToolFree
    /\ LET parsed == ZodParse(tool, input)
           context == parsed.value
           orgLogin == IF tool \in OrgTools THEN OrgLoginOf(context, state)
                       ELSE ""
           rejects(error, step) ==
               /\ last' = ToolSettled(tool, input, state, Throw(error), {step})
               /\ sent' = <<>>
           request ==
               IF LookupQuery(tool) = "none"
               THEN GraphqlRequest(GithubTokenOf(state), MainQuery(tool),
                        MainVariables(tool, context, orgLogin, JUndefined))
               ELSE GraphqlRequest(GithubTokenOf(state), LookupQuery(tool),
                        LookupVariables(tool, context, orgLogin))
       IN  IF ~parsed.ok THEN rejects(parsed.error, "inputSchema")
           ELSE IF ~HasGithubToken(state)
           THEN rejects(TokenNotConfigured, "githubToken")
           ELSE IF tool \in OrgTools /\ orgLogin = ""
           THEN rejects(OrganizationRequired, "orgLogin")
           ELSE /\ sent' = <<request>>
                /\ last' = ToolAwaiting(tool, input, state, context, orgLogin,
                               IF LookupQuery(tool) = "none" THEN "main"
                               ELSE "lookup")
    /\ UNCHANGED <<repos, projects, inflight>>

\* The same step going on to the mutation whatever the node id query gave.
ToolLookupResponse_IgnoresFailure(responses) ==
    /\ IsToolAwaiting("lookup")
    /\ \E response \in responses :
           LET outcome == GraphqlOutcome(response)
               id == IF outcome.ok
                     THEN ReadPath(outcome.value,
                                   LookupPath(LookupQuery(last.tool)))
                     ELSE [ok |-> FALSE, value |-> JUndefined]
           IN  /\ sent' = Append(sent,
                          GraphqlRequest(GithubTokenOf(last.state),
                              MainQuery(last.tool),
                              MainVariables(last.tool, last.context,
                                            last.orgLogin, id.value)))
               /\ last' = [last EXCEPT !.step = "main"]
    /\ UNCHANGED <<repos, projects, inflight>>

\* The same step sending the mutation twice.
ToolLookupResponse_SendsTwice(responses) ==
    /\ IsToolAwaiting("lookup")
    /\ \E response \in responses :
           LET outcome == GraphqlOutcome(response)
               id == ReadPath(outcome.value, LookupPath(LookupQuery(last.tool)))
           IN  IF ~outcome.ok
               THEN /\ last' = ToolSettled(last.tool, last.input, last.state,
                                           outcome, {"graphqlQuery"})
                    /\ sent' = sent
               ELSE IF ~id.ok
               THEN /\ last' = ToolSettled(last.tool, last.input, last.state,
                                           Throw(ReadOfMissing), {"nodeId"})
                    /\ sent' = sent
               ELSE /\ LET request ==
                               GraphqlRequest(GithubTokenOf(last.state),
                                   MainQuery(last.tool),
                                   MainVariables(last.tool, last.context,
                                                 last.orgLogin, id.value))
                       IN  sent' = Append(Append(sent, request), request)
                    /\ last' = [last EXCEPT !.step = "main"]
    /\ UNCHANGED <<repos, projects, inflight>>

\* A tool call from the response to its node id query on: the helper throws
\* what graphqlQuery throws or the read of the id does, or the tool sends
\* its mutation with the id.
ToolLookupResponse(responses) ==
    /\ IsToolAwaiting("lookup")
    /\ \E response \in responses :
           LET outcome == GraphqlOutcome(response)
               id == ReadPath(outcome.value, LookupPath(LookupQuery(last.tool)))
           IN  IF ~outcome.ok
               THEN /\ last' = ToolSettled(last.tool, last.input, last.state,
                                           outcome, {"graphqlQuery"})
                    /\ sent' = sent
               ELSE IF ~id.ok
               THEN /\ last' = ToolSettled(last.tool, last.input, last.state,
                                           Throw(ReadOfMissing), {"nodeId"})
                    /\ sent' = sent
               ELSE /\ sent' = Append(sent,
                           GraphqlRequest(GithubTokenOf(last.state),
                               MainQuery(last.tool),
                               MainVariables(last.tool, last.context,
                                             last.orgLogin, id.value)))
                    /\ last' = [last EXCEPT !.step = "main"]
    /\ UNCHANGED <<repos, projects, inflight>>

\* A tool call from the response to its query or mutation on: it throws what
\* graphqlQuery throws, or the reshaping of the data returns or throws.
ToolMainResponse(responses) ==
    /\ IsToolAwaiting("main")
    /\ \E response \in responses :
           LET outcome == GraphqlOutcome(response)
               done == IF outcome.ok THEN Reshape(last.tool, outcome.value)
                       ELSE outcome
           IN  last' = ToolSettled(last.tool, last.input, last.state, done,
                           IF ~outcome.ok THEN {"graphqlQuery"}
                           ELSE IF ~done.ok THEN {"result"}
                           ELSE {})
    /\ UNCHANGED <<repos, projects, sent, inflight>>

\* The tool call's promise settles: the caller has the outcome and the
\* request with its state is over.
ToolReturns ==
    /\ "pc" \in DOMAIN last
    /\ last.pc = "settled"
    /\ last' = [tool |-> "none"]
    /\ sent' = <<>>
    /\ UNCHANGED <<repos, projects, inflight>>

----------------------------------------------------------------------------
(* GET_TOOL_METADATA (tools/metadata.ts).                                  *)

\* allToolCategories
allToolCategories ==
    <<[category |-> "projects", tools |-> projectTools],
      [category |-> "issues", tools |-> issueTools],
      [category |-> "tracking", tools |-> trackingTools],
      [category |-> "user", tools |-> userTools],
      [category |-> "metadata", tools |-> <<"GET_TOOL_METADATA">>]>>

\* `tools` of tools/index.ts: the tools the server registers.
tools ==
    projectTools \o issueTools \o trackingTools \o metadataTools \o userTools

\* The entry pushed for a tool: its id and the category of the loop; the
\* description and the schemas are the tool's own.
ToolMetadata(tool, category) == [id |-> tool, category |-> category]

\* The inner loop without its try and catch is the same loop as long as no
\* createTool throws; with the try, a tool whose createTool(env) throws is
\* logged and left out.
RECURSIVE ExtractMetadata(_, _, _)
ExtractMetadata(creators, category, throwing) ==
    IF creators = <<>> THEN <<>>
    ELSE (IF Head(creators) \in throwing THEN <<>>
          ELSE <<ToolMetadata(Head(creators), category)>>)
             \o ExtractMetadata(Tail(creators), category, throwing)

\* selectedCategories
SelectedCategories(category) ==
    LET Selected(c) == c.category = category
    IN  IF category = "all" THEN allToolCategories
        ELSE SelectSeq(allToolCategories, Selected)

\* The outer loop: toolMetadata after the given categories.
RECURSIVE CollectMetadata(_, _)
CollectMetadata(categories, throwing) ==
    IF categories = <<>> THEN <<>>
    ELSE ExtractMetadata(Head(categories).tools, Head(categories).category,
                         throwing)
             \o CollectMetadata(Tail(categories), throwing)

\* execute of GET_TOOL_METADATA; `throwing` are the tools whose
\* createTool(env) throws in this call.
GetToolMetadata(input, throwing) ==
    /\ ToolFree
    /\ LET category == ZodDefault(input, "category", "all")
           selectedCategories == SelectedCategories(category)
       IN  last' = ToolSettled("GET_TOOL_METADATA", input, <<>>,
                       Ok([tools |->
                              CollectMetadata(selectedCategories, throwing)]),
                       {tool \in throwing :
                           \E i \in 1..Len(selectedCategories) :
                               tool \in Range(selectedCategories[i].tools)})
    /\ sent' = <<>>
    /\ UNCHANGED <<repos, projects, inflight>>

----------------------------------------------------------------------------
(* A tracking tool as the runtime runs it: createTool(env) is given the     *)
(* request-scoped state within env, and execute works with getDb(env) and   *)
(* its input alone.                                                         *)

\* The same call by a tool that wants the GitHub token first, as the
\* project and issue tools do.
TrackingToolCall_ChecksToken(state, call) ==
    IF HasGithubToken(state)
    THEN \/ /\ call.tool = "ADD_TRACKED_REPOSITORY"
            /\ AddTrackedRepository(call.input.owner, call.input.name, 1)
         \/ /\ call.tool = "LIST_TRACKED_REPOSITORIES"
            /\ ListTrackedRepositories(call.input)
         \/ /\ call.tool = "REMOVE_TRACKED_REPOSITORY"
            /\ RemoveTrackedRepository(call.input)
         \/ /\ call.tool = "ADD_TRACKED_PROJECT"
            /\ AddTrackedProject(call.input.projectId, call.input.title,
                                 call.input.organizationLogin, 1)
         \/ /\ call.tool = "LIST_TRACKED_PROJECTS"
            /\ ListTrackedProjects(call.input)
         \/ /\ call.tool = "REMOVE_TRACKED_PROJECT"
            /\ RemoveTrackedProject(call.input)
    ELSE /\ last' = Call(call.tool, call.input, Throw(TokenNotConfigured))
         /\ UNCHANGED <<repos, projects, net>>

\* execute of the tracking tool of the call, in a request with the state.
TrackingToolCall(state, call) ==
    \/ /\ call.tool = "ADD_TRACKED_REPOSITORY"
       /\ AddTrackedRepository(call.input.owner, call.input.name, 1)
    \/ /\ call.tool = "LIST_TRACKED_REPOSITORIES"
       /\ ListTrackedRepositories(call.input)
    \/ /\ call.tool = "REMOVE_TRACKED_REPOSITORY"
       /\ RemoveTrackedRepository(call.input)
    \/ /\ call.tool = "ADD_TRACKED_PROJECT"
       /\ AddTrackedProject(call.input.projectId, call.input.title,
                            call.input.organizationLogin, 1)
    \/ /\ call.tool = "LIST_TRACKED_PROJECTS"
       /\ ListTrackedProjects(call.input)
    \/ /\ call.tool = "REMOVE_TRACKED_PROJECT"
       /\ RemoveTrackedProject(call.input)

----------------------------------------------------------------------------
(* Inputs of the tools.                                                    *)

ListInputs == {<<>>} \cup {[activeOnly |-> b] : b \in BOOLEAN}

RemoveInputs ==
    {[id |-> i] : i \in IdInputs}
        \cup {[id |-> i, hardDelete |-> b] : i \in IdInputs, b \in BOOLEAN}

Init ==
    /\ repos = {}
    /\ projects = {}
    /\ last = [tool |-> "none"]
    /\ sent = <<>>
    /\ inflight = [c \in Callers |-> [pc |-> "idle"]]

\* Sequential calls of the six tracking tools over the whole input domains.
\* The caller works on one list at a time: it calls the tools of one table
\* while the other table is empty.
Next ==
    \/ \E o \in Owners, n \in Names, t \in Times :
           projects = {} /\ AddTrackedRepository(o, n, t)
    \/ \E i \in ListInputs : projects = {} /\ ListTrackedRepositories(i)
    \/ \E i \in RemoveInputs : projects = {} /\ RemoveTrackedRepository(i)
    \/ \E p \in ProjectIds, ti \in Titles, o \in Orgs, t \in Times :
           repos = {} /\ AddTrackedProject(p, ti, o, t)
    \/ \E i \in ListInputs : repos = {} /\ ListTrackedProjects(i)
    \/ \E i \in RemoveInputs : repos = {} /\ RemoveTrackedProject(i)

Spec == Init /\ [][Next]_vars

\* Sequential calls of the six tracking tools in any order, both tables
\* holding rows; every remove says whether it deletes.
NextBothTables ==
    \/ \E n \in Names : AddTrackedRepository("deco-cx", n, 1)
    \/ ListTrackedRepositories(<<>>)
    \/ \E i \in IdInputs, b \in BOOLEAN :
           RemoveTrackedRepository([id |-> i, hardDelete |-> b])
    \/ \E p \in ProjectIds : AddTrackedProject(p, "Platform", "deco-cx", 1)
    \/ ListTrackedProjects(<<>>)
    \/ \E i \in IdInputs, b \in BOOLEAN :
           RemoveTrackedProject([id |-> i, hardDelete |-> b])

SpecBothTables == Init /\ [][NextBothTables]_vars

\* Inputs of the concurrent callers.
ConcurrentTitles == Titles
ConcurrentOrgs == {"deco-cx"}
ConcurrentTimes == {1}
ConcurrentRemoveInputs ==
    {[id |-> i, hardDelete |-> b] : i \in IdInputs, b \in BOOLEAN}

\* Two callers running project tracking calls statement by statement.
NextConcurrentProjects ==
    \E c \in Callers :
        \/ \E p \in ProjectIds, ti \in ConcurrentTitles, o \in ConcurrentOrgs :
               LookupAddTrackedProject(c, p, ti, o)
        \/ \E t \in ConcurrentTimes : WriteAddTrackedProject(c, t)
        \/ \E i \in ConcurrentRemoveInputs : LookupRemoveTrackedProject(c, i)
        \/ WriteRemoveTrackedProject(c)

SpecConcurrentProjects == Init /\ [][NextConcurrentProjects]_vars

\* Two callers running ADD_TRACKED_REPOSITORY statement by statement, each
\* owner having the one repository: a lookup by owner finds the row of the
\* pair whenever the table holds one.
NextConcurrentRepositories ==
    \E c \in Callers :
        \/ \E o \in Owners : LookupAddTrackedRepository(c, o, "deco")
        \/ WriteAddTrackedRepository(c, 1)

SpecConcurrentRepositories == Init /\ [][NextConcurrentRepositories]_vars

\* The responses GitHub may give.
RECURSIVE Strings(_)
Strings(n) ==
    IF n = 0 THEN {<<>>}
    ELSE LET shorter == Strings(n - 1)
         IN  shorter \cup {str \o <<ch>> : str \in shorter, ch \in HeaderChars}

RetryAfterHeaders == {NoHeader} \cup {Header(v) : v \in Strings(MaxHeaderLen)}

StatusText(status) ==
    CASE status = 200 -> "OK"
      [] status = 204 -> "No Content"
      [] status = 401 -> "Unauthorized"
      [] status = 403 -> "Forbidden"
      [] status = 404 -> "Not Found"
      [] status = 429 -> "Too Many Requests"
      [] status = 500 -> "Internal Server Error"

NoJson == [parses |-> FALSE, json |-> JNull]
Json(value) == [parses |-> TRUE, json |-> value]

Viewer == JObject([viewer |-> JString("octocat")])

Bodies ==
    {NoJson, Json(JNull), Json(JObject(<<>>)),
     Json(JObject([message |-> "Bad credentials"])),
     Json(JObject([message |-> ""])),
     Json(JObject([documentation_url |-> "https://docs.github.com/rest"])),
     Json(JObject([data |-> Viewer])),
     Json(JObject([data |-> JNull])),
     Json(JObject([data |-> Viewer, errors |-> <<>>])),
     Json(JObject([errors |-> <<[message |-> "Not found"]>>])),
     Json(JObject([data |-> Viewer,
                   errors |-> <<[message |-> "Not found"],
                                [message |-> "Forbidden"]>>]))}

Responses ==
    {[status |-> st, statusText |-> StatusText(st), retryAfter |-> h,
      body |-> b] : st \in Statuses, h \in RetryAfterHeaders, b \in Bodies}

Variables == {<<>>, [first |-> 20]}
Methods == {"GET", "POST"}

\* Calls of the GitHub client, GitHub answering as it likes.
NextClient ==
    \/ \E t \in Tokens, q \in Queries, v \in Variables : GraphqlQuery(t, q, v)
    \/ GraphqlResponse(Responses)
    \/ \E t \in Tokens, e \in Endpoints, m \in Methods : RestRequest(t, e, m)
    \/ RestResponse(Responses)

SpecClient == Init /\ [][NextClient]_vars

----------------------------------------------------------------------------
(* GitHub, as the tools' queries see it.                                   *)

\* An issue as the ListIssues and GetIssue queries select it.
Issue(number, state, labels, assignees) ==
    LET Connection(field, values) ==
            JObject([nodes |->
                JArray([i \in 1..Len(values) |->
                           JObject([f \in {field} |-> JString(values[i])])])])
    IN  JObject([id |-> JString(ToString(number)),
                 number |-> JNumber(number),
                 state |-> JString(state),
                 labels |-> Connection("name", labels),
                 assignees |-> Connection("login", assignees),
                 comments |-> JObject([totalCount |-> JNumber(0)])])

\* The issues of the repository the model's GitHub holds, newest first.
GitHubIssues ==
    <<Issue(3, "OPEN", <<"bug">>, <<"octocat">>),
      Issue(2, "OPEN", <<>>, <<"hubot">>),
      Issue(1, "CLOSED", <<"bug">>, <<>>)>>

\* issues(states: $states, labels: $labels): the issues GitHub selects, in
\* their order, by the filters of the variables the query declares; a
\* variable that is not sent filters nothing.
SelectIssues(issues, variables) ==
    LET LabelsOf(issue) ==
            {issue.fields.labels.fields.nodes.items[i].fields.name.value :
                i \in 1..Len(issue.fields.labels.fields.nodes.items)}
        Selected(issue) ==
            /\ "states" \in DOMAIN variables =>
                   \E i \in 1..Len(variables.states) :
                       issue.fields.state.value = variables.states[i]
            /\ "labels" \in DOMAIN variables =>
                   \E i \in 1..Len(variables.labels) :
                       variables.labels[i] \in LabelsOf(issue)
    IN  SelectSeq(issues, Selected)

\* The data GitHub may answer a query with: the entity asked for, or null in
\* its place when GitHub has no such entity. A list holds the first $first
\* of what is selected; an item of a project has an issue as content, or
\* null for a content the token may not see.
GitHubData(query, variables) ==
    LET RECURSIVE Nest(_, _)
        Nest(path, leaf) ==
            IF path = <<>> THEN leaf
            ELSE JObject([f \in {Head(path)} |-> Nest(Tail(path), leaf)])
        found(path, leaf) ==
            {Nest(path, leaf), JObject([f \in {Head(path)} |-> JNull])}
        FirstOf(nodes, first) ==
            IF first >= Len(nodes) THEN nodes
            ELSE IF first < 1 THEN <<>>
            ELSE SubSeq(nodes, 1, first)
        Node == JObject([id |-> JString("NODE_1")])
        ProjectItem ==
            JObject([id |-> JString("PVTI_1"),
                     content |-> JObject([__typename |-> JString("Issue"),
                                          title |-> JString("Fix login"),
                                          number |-> JNumber(1)])])
        RedactedItem == JObject([id |-> JString("PVTI_2"), content |-> JNull])
        ToolOfQuery == CHOOSE tool \in GitHubTools : MainQuery(tool) = query
    IN  CASE query \in {"GetOrgId", "GetRepositoryId", "GetIssueId"} ->
                 found(LookupPath(query), JString("NODE_1"))
          [] query = "ListIssues" ->
                 LET selected == SelectIssues(GitHubIssues, variables)
                 IN  found(<<"repository", "issues">>,
                           JObject([totalCount |-> JNumber(Len(selected)),
                                    nodes |-> JArray(FirstOf(selected,
                                                     variables.first))]))
          [] query = "GetIssue" ->
                 found(<<"repository", "issue">>, GitHubIssues[1])
          [] query = "GetProject" ->
                 found(<<"node">>,
                       Spread(Node, "items",
                              JObject([totalCount |-> JNumber(1)])))
          [] query = "ListProjectItems" ->
                 found(<<"node", "items", "nodes">>, JArray(<<ProjectItem>>))
                     \cup {Nest(<<"node", "items", "nodes">>,
                                JArray(<<ProjectItem, RedactedItem>>))}
          [] query \in {"ListProjects", "ListComments"} ->
                 found(ResultPath(ToolOfQuery), JArray(<<Node>>))
          [] query = "DeleteProject" ->
                 found(<<"deleteProjectV2", "projectV2", "id">>,
                       JString("NODE_1"))
          [] OTHER -> found(ResultPath(ToolOfQuery), Node)

\* The responses GitHub may give to the last of the requests of a tool: a
\* status, a Retry-After header or none, and a body that is no JSON, carries
\* errors, or carries data for the query.
GitHubResponses(requests) ==
    IF requests = <<>> THEN {}
    ELSE LET request == requests[Len(requests)]
             bodies ==
                 {NoJson,
                  Json(JObject([errors |-> <<[message |-> "Not found"]>>]))}
                     \cup {Json(JObject([data |-> d])) :
                              d \in GitHubData(request.body.query,
                                               request.body.variables)}
         IN  {[status |-> st, statusText |-> StatusText(st),
               retryAfter |-> h, body |-> b] :
                 st \in {200, 401, 429}, h \in {NoHeader, Header(<<"7">>)},
                 b \in bodies}

----------------------------------------------------------------------------
(* Inputs of the GitHub-backed tools and of GET_TOOL_METADATA.            *)

\* The request-scoped states: no state at all, one without token, with an
\* empty token, with token, and with token and default organization.
RequestStates ==
    {<<>>, [githubToken |-> ""], [defaultOrganization |-> "deco-cx"],
     [githubToken |-> "ghp_token"],
     [githubToken |-> "ghp_token", defaultOrganization |-> ""],
     [githubToken |-> "ghp_token", defaultOrganization |-> "deco-cx"]}

\* Values of `first` a caller passes.
Firsts == {-5, 0, 1, 50, 100, 101, 250}

\* Inputs of the GitHub-backed tools, an optional field being given with
\* each of its values or left out.
ToolInputs(tool) ==
    LET Optional(inputs, field, values) ==
            inputs \cup {With(i, field, v) : i \in inputs, v \in values}
        IssueInput == [owner |-> "deco-cx", repo |-> "deco", issueNumber |-> 1]
    IN
    CASE tool = "LIST_GITHUB_PROJECTS" ->
             Optional(Optional({<<>>}, "organizationLogin", {"", "acme"}),
                      "first", Firsts)
      [] tool \in {"GET_PROJECT_DETAILS", "DELETE_PROJECT"} ->
             {[projectId |-> "PVT_1"]}
      [] tool = "CREATE_PROJECT" ->
             Optional({[organizationLogin |-> o, title |-> "Roadmap"] :
                          o \in {"", "acme"}},
                      "description", {"Plans for the year"})
      [] tool = "UPDATE_PROJECT" ->
             Optional(Optional({[projectId |-> "PVT_1"]}, "title",
                               {"Roadmap"}),
                      "public", {TRUE})
      [] tool = "LIST_PROJECT_ITEMS" ->
             Optional({[projectId |-> "PVT_1"]}, "first", Firsts)
      [] tool = "ADD_ITEM_TO_PROJECT" ->
             {[projectId |-> "PVT_1", contentId |-> "I_1"]}
      [] tool = "LIST_ISSUES" ->
             Optional(Optional(Optional(Optional(
                 {[owner |-> "deco-cx", repo |-> "deco"]},
                 "state", {"OPEN", "CLOSED"}),
                 "labels", {<<"bug">>}),
                 "assignee", {"octocat"}),
                 "first", {0, 1, 101})
      [] tool = "GET_ISSUE" -> {IssueInput}
      [] tool = "CREATE_ISSUE" ->
             Optional({[owner |-> "deco-cx", repo |-> "deco",
                        title |-> "Fix login"]}, "body", {"Steps"})
      [] tool = "UPDATE_ISSUE" ->
             Optional(Optional({IssueInput}, "title", {"Fix login"}),
                      "state", {"CLOSED"})
      [] tool = "CLOSE_ISSUE" ->
             Optional({IssueInput}, "stateReason", {"COMPLETED"})
      [] tool = "ADD_ISSUE_COMMENT" -> {With(IssueInput, "body", "Done")}
      [] tool = "LIST_ISSUE_COMMENTS" ->
             Optional({IssueInput}, "first", Firsts)
      [] tool \in {"ADD_LABELS_TO_ISSUE", "REMOVE_LABELS_FROM_ISSUE"} ->
             {With(IssueInput, "labelIds", <<"LA_1">>)}
      [] tool \in {"ASSIGN_ISSUE", "UNASSIGN_ISSUE"} ->
             {With(IssueInput, "assigneeIds", <<"U_1">>)}

\* The most createTool(env) calls the model lets throw in one call.
MaxThrowing == 1

\* The sets of at most n elements of a set.
RECURSIVE UpTo(_, _)
UpTo(set, n) ==
    IF n = 0 THEN {{}}
    ELSE LET smaller == UpTo(set, n - 1)
         IN  smaller \cup {s \cup {e} : s \in smaller, e \in set}

\* Inputs of GET_TOOL_METADATA: no category, or one of the enum.
MetadataInputs ==
    {<<>>} \cup {[category |-> c] :
                    c \in {"all", "projects", "issues", "tracking", "user",
                           "metadata"}}

\* Calls of the GitHub-backed tools and of GET_TOOL_METADATA, one after the
\* other, GitHub answering as it likes.
NextTools ==
    \/ \E tool \in GitHubTools, state \in RequestStates :
           \E input \in ToolInputs(tool) : InvokeTool(tool, state, input)
    \/ ToolLookupResponse(GitHubResponses(sent))
    \/ ToolMainResponse(GitHubResponses(sent))
    \/ \E input \in MetadataInputs, throwing \in UpTo(Range(tools), MaxThrowing) :
           GetToolMetadata(input, throwing)
    \/ ToolReturns

SpecTools == Init /\ [][NextTools]_vars

\* The calls of the tracking tools the runtime makes in a request.
TrackingCalls ==
    {[tool |-> "ADD_TRACKED_REPOSITORY",
      input |-> [owner |-> "deco-cx", name |-> "deco"]],
     [tool |-> "ADD_TRACKED_PROJECT",
      input |-> [projectId |-> "PVT_1", title |-> "Platform",
                 organizationLogin |-> "deco-cx"]]}
        \cup {[tool |-> t, input |-> i] :
                 t \in {"LIST_TRACKED_REPOSITORIES", "LIST_TRACKED_PROJECTS"},
                 i \in ListInputs}
        \cup {[tool |-> t, input |-> i] :
                 t \in {"REMOVE_TRACKED_REPOSITORY", "REMOVE_TRACKED_PROJECT"},
                 i \in RemoveInputs}

\* Calls of the tracking tools, each in a request of its own whose state may
\* or may not carry a token and a default organization.
NextTrackingInRequests ==
    \E state \in RequestStates, call \in TrackingCalls :
        TrackingToolCall(state, call)

SpecTrackingInRequests == Init /\ [][NextTrackingInRequests]_vars

----------------------------------------------------------------------------
(* Properties of the tracking tools.                                       *)

IsCall(tool) == last.tool = tool

HardDeleteOf(input) == ZodDefault(input, "hardDelete", FALSE)

SameRepository(r, owner, name) == r.owner = owner /\ r.name = name

\* C1: tracked_repositories never holds two rows with the same
\* (owner, name) pair, whatever adds and removes were called.
C1_NoDuplicateRepository ==
    \A r1, r2 \in repos :
        SameRepository(r1, r2.owner, r2.name) => r1 = r2

\* C2: ADD_TRACKED_REPOSITORY for an (owner, name) that has an inactive row
\* reactivates that row in place: same id, owner, name and createdAt, now
\* active, no row added, and the call returns that id with isActive = true.
C2_ReactivatesInPlace ==
    IsCall("ADD_TRACKED_REPOSITORY") =>
        \A r \in last.before.repos :
            (SameRepository(r, last.input.owner, last.input.name)
                /\ r.isActive = 0)
            => /\ [r EXCEPT !.isActive = 1] \in repos
               /\ Cardinality(repos) = Cardinality(last.before.repos)
               /\ last.outcome.ok
               /\ last.outcome.value.id = r.id
               /\ last.outcome.value.isActive

\* C3: under any interleaving of ADD_TRACKED_PROJECT and
\* REMOVE_TRACKED_PROJECT calls, tracked_projects holds at most one row per
\* GitHub projectId.
C3_OneRowPerProjectId ==
    \A r1, r2 \in projects : r1.projectId = r2.projectId => r1 = r2

\* Two adds of a projectId raced: one inserted, the unique index refused the
\* other.
C3_Witness ==
    \E c1, c2 \in Callers :
        /\ inflight[c1].pc = "done" /\ inflight[c2].pc = "done"
        /\ inflight[c1].tool = "ADD_TRACKED_PROJECT"
        /\ inflight[c2].tool = "ADD_TRACKED_PROJECT"
        /\ inflight[c1].input.projectId = inflight[c2].input.projectId
        /\ inflight[c1].outcome.ok
        /\ inflight[c2].outcome = Throw(UniqueConstraintFailed)
        /\ \E r \in projects : r.projectId = inflight[c1].input.projectId

\* The row of a projectId in a table (the unique index leaves at most one).
RowsOfProjectId(table, projectId) == {r \in table : r.projectId = projectId}

\* An ADD_TRACKED_PROJECT call whose projectId already had a row.
AddedExistingProject ==
    /\ IsCall("ADD_TRACKED_PROJECT")
    /\ RowsOfProjectId(last.before.projects, last.input.projectId) # {}

\* What C4 says of the state after such a call: no row added, the row keeps
\* its id (and its other columns), carries the title of this call, is
\* active, and is what the call returns.
C4_RefreshedInPlace ==
    AddedExistingProject =>
        \A r \in RowsOfProjectId(last.before.projects, last.input.projectId) :
            LET refreshed ==
                    [r EXCEPT !.title = last.input.title, !.isActive = 1]
            IN  /\ projects = (last.before.projects \ {r}) \cup {refreshed}
                /\ Cardinality(projects) = Cardinality(last.before.projects)
                /\ last.outcome = Ok(ProjectOut(refreshed))

\* What C4 says of a repeated call: after an ADD_TRACKED_PROJECT, the same
\* call again leaves the table as the first call left it.
C4_SecondCallChangesNothing ==
    (/\ IsCall("ADD_TRACKED_PROJECT")
     /\ last.outcome.ok
     /\ last'.tool = "ADD_TRACKED_PROJECT"
     /\ last'.input = last.input)
    => projects' = projects

\* C4: ADD_TRACKED_PROJECT for a projectId that already has a row (active or
\* inactive) adds no row, keeps the row's id, sets its title to the title of
\* this call, leaves it active and returns it; calling it twice with the same
\* arguments gives the same table as calling it once.
C4_AddExistingProjectIdempotent ==
    /\ []C4_RefreshedInPlace
    /\ [][C4_SecondCallChangesNothing]_vars

C4_Witness ==
    /\ AddedExistingProject
    /\ \E r \in last.before.projects :
           /\ r.projectId = last.input.projectId
           /\ r.isActive = 0
           /\ r.title # last.input.title
           /\ r.organizationLogin # last.input.organizationLogin
    /\ Cardinality(projects) = 2

\* The rows of the table a REMOVE tool works on, before and after the call.
RemovedFrom(before) ==
    IF IsCall("REMOVE_TRACKED_REPOSITORY") THEN before.repos
    ELSE before.projects
RemovedFromNow ==
    IF IsCall("REMOVE_TRACKED_REPOSITORY") THEN repos ELSE projects
OtherTableNow ==
    IF IsCall("REMOVE_TRACKED_REPOSITORY") THEN projects ELSE repos
OtherTable(before) ==
    IF IsCall("REMOVE_TRACKED_REPOSITORY") THEN before.projects
    ELSE before.repos

IsRemoveCall ==
    IsCall("REMOVE_TRACKED_REPOSITORY") \/ IsCall("REMOVE_TRACKED_PROJECT")

RemoveFound ==
    /\ IsRemoveCall
    /\ \E r \in RemovedFrom(last.before) : r.id = last.input.id

\* C5: a soft remove (hardDelete false or omitted) of an existing id sets
\* that row's isActive to 0 and nothing else: the row stays with its other
\* columns, every other row and the other table are unchanged, and the call
\* returns success = true with deletedId = the id.
C5_SoftRemoveOnlyDeactivates ==
    (RemoveFound /\ ~HardDeleteOf(last.input)) =>
        \E r \in RemovedFrom(last.before) :
            /\ r.id = last.input.id
            /\ RemovedFromNow =
                   (RemovedFrom(last.before) \ {r})
                       \cup {[r EXCEPT !.isActive = 0]}
            /\ OtherTableNow = OtherTable(last.before)
            /\ last.outcome = Ok([success |-> TRUE, deletedId |-> r.id])

C5_Witness ==
    /\ RemoveFound
    /\ ~HardDeleteOf(last.input)
    /\ "hardDelete" \notin DOMAIN last.input
    /\ IsCall("REMOVE_TRACKED_PROJECT")
    /\ Cardinality(projects) = 2
    /\ \E r \in last.before.projects :
           r.id = last.input.id /\ r.isActive = 1

\* C6: a hard remove (hardDelete = true) of an existing id deletes exactly
\* the row with that id: no row has the id afterwards and every other row is
\* unchanged.
C6_HardRemoveDeletesThatRow ==
    (RemoveFound /\ HardDeleteOf(last.input)) =>
        /\ \A r \in RemovedFromNow : r.id # last.input.id
        /\ \A r \in RemovedFrom(last.before) :
               r.id # last.input.id => r \in RemovedFromNow
        /\ RemovedFromNow \subseteq RemovedFrom(last.before)
        /\ OtherTableNow = OtherTable(last.before)

C6_Witness ==
    /\ RemoveFound
    /\ HardDeleteOf(last.input)
    /\ IsCall("REMOVE_TRACKED_REPOSITORY")
    /\ Cardinality(last.before.repos) = 3
    /\ Cardinality(repos) = 2

\* C7: a remove of an id that has no row rejects with the 'not found' error
\* naming the id, for both hardDelete settings, and changes neither table.
C7_RemoveUnknownIdRejects ==
    (IsRemoveCall /\ ~RemoveFound) =>
        /\ ~last.outcome.ok
        /\ last.outcome.error.message =
               <<(IF IsCall("REMOVE_TRACKED_REPOSITORY")
                  THEN "Tracked repository with ID "
                  ELSE "Tracked project with ID "),
                 ToString(last.input.id), " not found">>
        /\ repos = last.before.repos
        /\ projects = last.before.projects

C7_Witness ==
    /\ IsCall("REMOVE_TRACKED_REPOSITORY")
    /\ ~RemoveFound
    /\ HardDeleteOf(last.input)
    /\ repos # {}
    /\ ~last.outcome.ok

IsListCall ==
    IsCall("LIST_TRACKED_REPOSITORIES") \/ IsCall("LIST_TRACKED_PROJECTS")

\* The objects a LIST call is to return for the given rows.
Listed(rows) ==
    IF IsCall("LIST_TRACKED_REPOSITORIES")
    THEN {RepositoryOut(r) : r \in rows}
    ELSE {ProjectOut(r) : r \in rows}

ListedTable ==
    IF IsCall("LIST_TRACKED_REPOSITORIES") THEN repos ELSE projects

\* C8: LIST with activeOnly true or omitted returns exactly the rows whose
\* isActive is 1; with activeOnly = false it returns every row, soft-deleted
\* ones with isActive = false.  Listing changes neither table.
C8_ListReturnsActiveOrAll ==
    IsListCall =>
        LET activeOnly == ZodDefault(last.input, "activeOnly", TRUE)
            value == last.outcome.value
        IN  /\ last.outcome.ok
            /\ \A r \in ListedTable :
                   Listed({r}) \subseteq value
                       <=> (activeOnly => r.isActive = 1)
            /\ \A v \in value :
                   \E r \in ListedTable :
                       /\ Listed({r}) = {v}
                       /\ v.isActive = (r.isActive = 1)
            /\ repos = last.before.repos
            /\ projects = last.before.projects

C8_Witness ==
    /\ IsCall("LIST_TRACKED_REPOSITORIES")
    /\ "activeOnly" \notin DOMAIN last.input
    /\ \E r \in repos : r.isActive = 0
    /\ \E r \in repos : r.isActive = 1
    /\ Cardinality(last.outcome.value) < Cardinality(repos)

----------------------------------------------------------------------------
(* Properties of the GitHub client.                                        *)

IsSettled(fn) == last.tool = fn /\ last.pc = "settled"

ClientSettled == IsSettled("graphqlQuery") \/ IsSettled("restRequest")

\* A header value that is a decimal integer: digits, possibly after a "-".
IsInteger(str) ==
    LET digits == IF str # <<>> /\ Head(str) = "-" THEN Tail(str) ELSE str
    IN  digits # <<>> /\ \A i \in 1..Len(digits) : IsDigit(digits[i])

\* The integer such a header value denotes.
RECURSIVE IntegerValue(_)
IntegerValue(str) ==
    IF Head(str) = "-" THEN 0 - IntegerValue(Tail(str))
    ELSE IF Len(str) = 1 THEN DigitValue(str[1])
    ELSE 10 * IntegerValue(SubSeq(str, 1, Len(str) - 1))
             + DigitValue(str[Len(str)])

\* C9: on HTTP 429 graphqlQuery and restRequest throw the rate-limit error,
\* whose retryAfter is the integer value of the Retry-After header, or 60
\* when the response has no such header; they return no data.
C9_RateLimitCarriesRetryAfter ==
    (ClientSettled /\ last.response.status = 429) =>
        LET header == last.response.retryAfter
        IN  /\ ~last.outcome.ok
            /\ "retryAfter" \in DOMAIN last.outcome.error
            /\ ~header.present => last.outcome.error.retryAfter = Num(60)
            /\ (header.present /\ IsInteger(header.value)) =>
                   last.outcome.error.retryAfter
                       = Num(IntegerValue(header.value))

C9_Witness ==
    /\ IsSettled("graphqlQuery")
    /\ last.response.status = 429
    /\ last.response.retryAfter = Header(<<"1", "7">>)
    /\ last.response.body = Json(JObject([data |-> Viewer]))
    /\ last.outcome.error.retryAfter = Num(17)

\* A thrown message carries a text when the text is part of it.
Carries(message, text) ==
    text = "" \/ \E i \in 1..Len(message) : message[i] = text

\* A response that is neither 2xx nor 429.
FailedResponse(response) ==
    ~(response.status >= 200 /\ response.status <= 299)
        /\ response.status # 429

\* The response body parses and has a message field.
HasMessageField(body) ==
    /\ body.parses
    /\ body.json.json = "object"
    /\ "message" \in DOMAIN body.json.fields

\* A generic failure: an error that is not the rate-limit error, whose
\* message carries the status code.
GenericFailure(outcome, response) ==
    /\ ~outcome.ok
    /\ "retryAfter" \notin DOMAIN outcome.error
    /\ Carries(outcome.error.message, ToString(response.status))

\* C10 as stated: on a non-2xx status other than 429 the helper (graphqlQuery
\* as restRequest) throws a generic failure carrying the status code and,
\* when the body parses and has a message field, that message.
C10_FailureCarriesStatusAndMessage ==
    (ClientSettled /\ FailedResponse(last.response)) =>
        /\ GenericFailure(last.outcome, last.response)
        /\ HasMessageField(last.response.body) =>
               Carries(last.outcome.error.message,
                       last.response.body.json.fields.message)

\* C10 as amended: on a non-2xx status other than 429, restRequest throws a
\* generic failure carrying the status code and, when the body parses and has
\* a message field, that message; graphqlQuery throws a generic failure that
\* carries the status code and status text only, whatever the body holds.
C10_RestCarriesMessageGraphqlStatusOnly ==
    (ClientSettled /\ FailedResponse(last.response)) =>
        /\ GenericFailure(last.outcome, last.response)
        /\ IsSettled("restRequest") =>
               (HasMessageField(last.response.body) =>
                    Carries(last.outcome.error.message,
                            last.response.body.json.fields.message))
        /\ IsSettled("graphqlQuery") =>
               last.outcome.error.message =
                   <<"GitHub API request failed: ",
                     ToString(last.response.status), " ",
                     last.response.statusText>>

C10_Witness ==
    /\ IsSettled("restRequest")
    /\ last.response.status = 401
    /\ last.response.body = Json(JObject([message |-> "Bad credentials"]))
    /\ last.outcome.error.message =
           <<"GitHub REST API request failed: ", "401", " ", "Unauthorized",
             " - ", "Bad credentials">>

\* A response with a 2xx status whose body is a JSON object: a GraphQL
\* response.
IsGraphqlResponse(response) ==
    /\ response.status >= 200 /\ response.status <= 299
    /\ response.body.parses
    /\ response.body.json.json = "object"

\* The response has a non-empty top-level errors list.
HasErrors(result) == "errors" \in DOMAIN result /\ result.errors # <<>>

\* The response has a data field holding a payload (a data of null is a
\* response without data).
HasData(result) == "data" \in DOMAIN result /\ result.data # JNull

\* C11: for a 2xx GraphQL response graphqlQuery returns the data payload if
\* and only if the response has no (or an empty) errors list and has data;
\* with a non-empty errors list it throws the joined error messages, data or
\* not, and without data it throws 'GraphQL response missing data'.
C11_ReturnsDataIffNoErrorsAndData ==
    (IsSettled("graphqlQuery") /\ IsGraphqlResponse(last.response)) =>
        LET result == last.response.body.json.fields
            message == last.outcome.error.message
        IN  /\ last.outcome.ok <=> (~HasErrors(result) /\ HasData(result))
            /\ last.outcome.ok => last.outcome.value = result.data
            /\ HasErrors(result) =>
                   /\ ~last.outcome.ok
                   /\ Head(message) = "GraphQL errors: "
                   /\ Len(message) = 2 * Len(result.errors)
                   /\ \A i \in 1..Len(result.errors) :
                          /\ message[2 * i] = result.errors[i].message
                          /\ i > 1 => message[2 * i - 1] = ", "
            /\ (~HasErrors(result) /\ ~HasData(result)) =>
                   last.outcome =
                       Throw(Error(<<"GraphQL response missing data">>))

\* A 200 response holding both data and two errors: the call threw the two
\* messages joined.
C11_Witness ==
    /\ IsSettled("graphqlQuery")
    /\ last.response.status = 200
    /\ IsGraphqlResponse(last.response)
    /\ HasData(last.response.body.json.fields)
    /\ HasErrors(last.response.body.json.fields)
    /\ Len(last.response.body.json.fields.errors) = 2
    /\ last.outcome.error.message =
           <<"GraphQL errors: ", "Not found", ", ", "Forbidden">>

\* C12: each call of the request helper sends exactly one HTTP request,
\* whatever the outcome: while it awaits the response and after it settled
\* (on a 429, another non-2xx status, GraphQL errors or missing data as on
\* success) the call has sent one request.
C12_OneRequestPerCall ==
    (last.tool \in {"graphqlQuery", "restRequest"}) => Len(sent) = 1

\* A call that got a 429 settled with its one request sent.
C12_Witness ==
    /\ IsSettled("graphqlQuery")
    /\ last.response.status = 429
    /\ ~last.outcome.ok
    /\ Len(sent) = 1
    /\ sent[1].url = GITHUB_GRAPHQL_URL

IsRepositoryCall ==
    \/ IsCall("ADD_TRACKED_REPOSITORY")
    \/ IsCall("LIST_TRACKED_REPOSITORIES")
    \/ IsCall("REMOVE_TRACKED_REPOSITORY")

IsProjectCall ==
    \/ IsCall("ADD_TRACKED_PROJECT")
    \/ IsCall("LIST_TRACKED_PROJECTS")
    \/ IsCall("REMOVE_TRACKED_PROJECT")

\* C17: every repository tracking call (add, list, remove) leaves
\* tracked_projects as it was, and every project tracking call leaves
\* tracked_repositories as it was, whether the call succeeded or threw.
C17_TablesIndependent ==
    /\ IsRepositoryCall => projects = last.before.projects
    /\ IsProjectCall => repos = last.before.repos

\* A hard remove of a tracked project whose id a tracked repository has too:
\* the project row went, the repository row stayed.
C17_Witness ==
    /\ IsCall("REMOVE_TRACKED_PROJECT")
    /\ last.outcome.ok
    /\ HardDeleteOf(last.input)
    /\ \E r \in repos : r.id = last.input.id /\ r.isActive = 1
    /\ \A r \in projects : r.id # last.input.id
    /\ projects # {}

----------------------------------------------------------------------------
(* Properties of the GitHub-backed tools and of GET_TOOL_METADATA.         *)

IsToolCall(toolIds) == last.tool \in toolIds

\* A tool call that returned or threw.
ToolIsSettled(toolIds) == IsToolCall(toolIds) /\ last.pc = "settled"

\* The input has the field, with a value that is not the empty string.
Given(object, field) == field \in DOMAIN object /\ object[field] # ""

\* C13: LIST_ISSUES, LIST_ISSUE_COMMENTS, LIST_GITHUB_PROJECTS and
\* LIST_PROJECT_ITEMS called with first greater than 100 send first = 100,
\* called with first between 1 and 100 send that value unchanged, and never
\* send a page size above 100.
C13_PageSizeClampedTo100 ==
    IsToolCall({"LIST_ISSUES", "LIST_ISSUE_COMMENTS", "LIST_GITHUB_PROJECTS",
                "LIST_PROJECT_ITEMS"}) =>
        \A i \in 1..Len(sent) :
            LET first == sent[i].body.variables.first
            IN  /\ first <= 100
                /\ "first" \in DOMAIN last.input =>
                       /\ last.input.first > 100 => first = 100
                       /\ (last.input.first >= 1 /\ last.input.first <= 100)
                              => first = last.input.first

\* LIST_ISSUE_COMMENTS asked for 250 comments and sent first = 100.
C13_Witness ==
    /\ IsToolCall({"LIST_ISSUE_COMMENTS"})
    /\ "first" \in DOMAIN last.input
    /\ last.input.first = 250
    /\ Len(sent) = 1
    /\ sent[1].body.query = "ListComments"
    /\ sent[1].body.variables.first = 100

\* The call's input has every field its schema requires, so the tool's
\* execute runs.
InputAccepted == "inputSchema" \notin last.failed

\* C14: a project tool or issue tool called while the request-scoped state
\* has no githubToken rejects with the 'GitHub token not configured' error,
\* and no request has been sent to GitHub.
C14_NoTokenRejectsBeforeAnyRequest ==
    (IsToolCall(GitHubTools) /\ InputAccepted
        /\ ~Given(last.state, "githubToken")) =>
        /\ last.pc = "settled"
        /\ last.outcome = Throw(TokenNotConfigured)
        /\ sent = <<>>

\* CLOSE_ISSUE, a tool with a node id helper, called without any state.
C14_Witness ==
    /\ ToolIsSettled({"CLOSE_ISSUE"})
    /\ last.state = <<>>
    /\ last.outcome = Throw(TokenNotConfigured)
    /\ sent = <<>>

\* C15 as stated: no tool invocation sends more than one request to GitHub.
C15_OneRequestPerInvocation ==
    IsToolCall(GitHubTools \cup {"GET_TOOL_METADATA"}) => Len(sent) <= 1

\* The tools that resolve a node id before their mutation.
NodeIdTools ==
    {"CREATE_PROJECT", "CREATE_ISSUE", "UPDATE_ISSUE", "CLOSE_ISSUE",
     "ADD_ISSUE_COMMENT", "ADD_LABELS_TO_ISSUE", "REMOVE_LABELS_FROM_ISSUE",
     "ASSIGN_ISSUE", "UNASSIGN_ISSUE"}

NodeIdQueries == {"GetOrgId", "GetRepositoryId", "GetIssueId"}

\* C15 as amended: a tool invocation sends at most two requests to GitHub,
\* one after the other: the tools that resolve a node id (CREATE_PROJECT,
\* CREATE_ISSUE, UPDATE_ISSUE, CLOSE_ISSUE, ADD_ISSUE_COMMENT and the label
\* and assignee tools) send the node id query and then, once it returned an
\* id, their mutation; every other tool sends at most one request.
C15_AtMostLookupAndMutation ==
    IsToolCall(GitHubTools \cup {"GET_TOOL_METADATA"}) =>
        /\ Len(sent) <= 2
        /\ last.tool \notin NodeIdTools => Len(sent) <= 1
        /\ Len(sent) >= 1 =>
               (sent[1].body.query \in NodeIdQueries
                    <=> last.tool \in NodeIdTools)
        /\ Len(sent) = 2 => sent[2].body.query \notin NodeIdQueries

\* CREATE_ISSUE returned after its two requests.
C15_Witness ==
    /\ ToolIsSettled({"CREATE_ISSUE"})
    /\ last.outcome.ok
    /\ Len(sent) = 2
    /\ sent[1].body.query = "GetRepositoryId"
    /\ sent[2].body.query = "CreateIssue"

\* C16: a call in which a step failed (the upstream API, a local
\* precondition, the processing of one element) rejects with an error; no
\* call returns a success result after one of its steps failed.
C16_NoSuccessAfterFailedStep ==
    (ToolIsSettled(GitHubTools \cup {"GET_TOOL_METADATA"})
        /\ last.failed # {}) => ~last.outcome.ok

\* The organization LIST_GITHUB_PROJECTS is to query: the one of the input
\* when it is given and not empty, else the default one of the state.
ExpectedOrg ==
    IF Given(last.input, "organizationLogin")
    THEN last.input.organizationLogin
    ELSE IF Given(last.state, "defaultOrganization")
    THEN last.state.defaultOrganization
    ELSE ""

\* C18: LIST_GITHUB_PROJECTS called with a token and without
\* organizationLogin (omitted or empty) queries the default organization,
\* called with one it queries that organization, and with neither it rejects
\* with 'Organization login is required' and sends no request.
C18_ListProjectsOrgDefaulting ==
    (IsToolCall({"LIST_GITHUB_PROJECTS"})
        /\ Given(last.state, "githubToken")) =>
        IF ExpectedOrg = ""
        THEN /\ last.pc = "settled"
             /\ last.outcome = Throw(OrganizationRequired)
             /\ sent = <<>>
        ELSE /\ Len(sent) = 1
             /\ sent[1].body.query = "ListProjects"
             /\ sent[1].body.variables.login = ExpectedOrg

\* The logins of the assignees of a returned issue.
AssigneesOf(issue) ==
    {issue.fields.assignees.items[i].fields.login.value :
        i \in 1..Len(issue.fields.assignees.items)}

\* C19: LIST_ISSUES called with an assignee restricts the query it sends to
\* that assignee, and every issue it returns has that user among its
\* assignees.
C19_ListIssuesFiltersByAssignee ==
    (IsToolCall({"LIST_ISSUES"}) /\ "assignee" \in DOMAIN last.input) =>
        /\ \A i \in 1..Len(sent) :
               \E v \in DOMAIN sent[i].body.variables :
                   v \in {"assignee", "filterBy"}
        /\ (last.pc = "settled" /\ last.outcome.ok) =>
               LET issues == last.outcome.value.fields.issues.items
               IN  \A i \in 1..Len(issues) :
                       last.input.assignee \in AssigneesOf(issues[i])

\* The entries GET_TOOL_METADATA is to return for one category.
EntriesOf(category, toolIds) ==
    [i \in 1..Len(toolIds) |-> [id |-> toolIds[i], category |-> category]]

EntriesOfCategory(category) ==
    CASE category = "projects" -> EntriesOf(category, projectTools)
      [] category = "issues" -> EntriesOf(category, issueTools)
      [] category = "tracking" -> EntriesOf(category, trackingTools)
      [] category = "user" -> EntriesOf(category, userTools)
      [] category = "metadata" -> EntriesOf(category, metadataTools)

\* C20: GET_TOOL_METADATA with a specific category returns exactly the tools
\* of that category, each tagged with it; with 'all' or no category it
\* returns the concatenation of the per-category results, one entry per
\* registered tool and no tool twice.
C20_MetadataListsCategoryOrAll ==
    ToolIsSettled({"GET_TOOL_METADATA"}) =>
        LET category == IF "category" \in DOMAIN last.input
                        THEN last.input.category ELSE "all"
            listed == last.outcome.value.tools
        IN  /\ last.outcome.ok
            /\ category # "all" => listed = EntriesOfCategory(category)
            /\ category = "all" =>
                   /\ listed =
                          EntriesOfCategory("projects")
                              \o EntriesOfCategory("issues")
                              \o EntriesOfCategory("tracking")
                              \o EntriesOfCategory("user")
                              \o EntriesOfCategory("metadata")
                   /\ {listed[i].id : i \in 1..Len(listed)} = Range(tools)
                   /\ Len(listed) = Len(tools)
                   /\ \A i, j \in 1..Len(listed) :
                          listed[i].id = listed[j].id => i = j

----------------------------------------------------------------------------
(* Further properties of the tracking tools.                               *)

IsAddCall == IsCall("ADD_TRACKED_REPOSITORY") \/ IsCall("ADD_TRACKED_PROJECT")

\* The rows of the table of the last call that have the key of its input:
\* (owner, name) for a repository, projectId for a project.
RowsOfKey(table) ==
    IF IsCall("ADD_TRACKED_REPOSITORY")
    THEN {r \in table : SameRepository(r, last.input.owner, last.input.name)}
    ELSE {r \in table : r.projectId = last.input.projectId}

\* What C24 says of the state after a successful add: an active row of the
\* key is in the table, and the call returned that row, as active.
C24_AddedRowIsActive ==
    (IsAddCall /\ last.outcome.ok) =>
        /\ last.outcome.value.isActive
        /\ \E r \in RowsOfKey(IF IsCall("ADD_TRACKED_REPOSITORY")
                             THEN repos ELSE projects) :
               /\ r.isActive = 1
               /\ last.outcome.value =
                      (IF IsCall("ADD_TRACKED_REPOSITORY")
                       THEN RepositoryOut(r) ELSE ProjectOut(r))

\* What C24 says of the call after it: a LIST of the same table with
\* activeOnly omitted returns the row the add returned.
C24_NextDefaultListIncludesIt ==
    (/\ IsAddCall
     /\ last.outcome.ok
     /\ last'.tool = (IF IsCall("ADD_TRACKED_REPOSITORY")
                      THEN "LIST_TRACKED_REPOSITORIES"
                      ELSE "LIST_TRACKED_PROJECTS")
     /\ "activeOnly" \notin DOMAIN last'.input)
    => last.outcome.value \in last'.outcome.value

\* C24: after a successful ADD_TRACKED_REPOSITORY or ADD_TRACKED_PROJECT,
\* whatever the table held before, an active row of the key exists and the
\* call returned that row with isActive = true, and the default LIST called
\* next includes it.
C24_AddMakesRowActiveAndListed ==
    /\ []C24_AddedRowIsActive
    /\ [][C24_NextDefaultListIncludesIt]_vars

\* An add of a repository whose row was inactive, next to an active row of
\* another owner.
C24_Witness ==
    /\ IsCall("ADD_TRACKED_REPOSITORY")
    /\ last.outcome.ok
    /\ \E r \in last.before.repos :
           /\ SameRepository(r, last.input.owner, last.input.name)
           /\ r.isActive = 0
           /\ last.outcome.value.id = r.id
    /\ \E r \in repos : r.owner # last.input.owner /\ r.isActive = 1

\* The table the last call works on, now and before the call.
TableNow ==
    IF last.tool \in {"ADD_TRACKED_REPOSITORY", "LIST_TRACKED_REPOSITORIES",
                      "REMOVE_TRACKED_REPOSITORY"}
    THEN repos ELSE projects
TableBefore ==
    IF last.tool \in {"ADD_TRACKED_REPOSITORY", "LIST_TRACKED_REPOSITORIES",
                      "REMOVE_TRACKED_REPOSITORY"}
    THEN last.before.repos ELSE last.before.projects

\* C25: an ADD for a key that has no row (as after a hard delete) does not
\* fail and inserts a new active row; an ADD for a key whose one row is
\* inactive (as after a soft delete) reuses that row; either way exactly one
\* row of the key exists afterwards.
C25_AddAfterRemove ==
    IsAddCall =>
        /\ RowsOfKey(TableBefore) = {} =>
               /\ last.outcome.ok
               /\ Cardinality(RowsOfKey(TableNow)) = 1
               /\ \E r \in RowsOfKey(TableNow) :
                      /\ TableNow = TableBefore \cup {r}
                      /\ r.isActive = 1
                      /\ last.outcome.value.id = r.id
        /\ \A r \in RowsOfKey(TableBefore) :
               (RowsOfKey(TableBefore) = {r} /\ r.isActive = 0) =>
                   /\ last.outcome.ok
                   /\ Cardinality(RowsOfKey(TableNow)) = 1
                   /\ Cardinality(TableNow) = Cardinality(TableBefore)
                   /\ last.outcome.value.id = r.id
                   /\ \E q \in RowsOfKey(TableNow) :
                          q.id = r.id /\ q.isActive = 1

\* What C26 says of one soft remove of a row that is inactive already: it
\* returns success = true and both tables are as they were.
C26_SoftRemoveOfInactiveChangesNothing ==
    (RemoveFound /\ ~HardDeleteOf(last.input)) =>
        \A r \in RemovedFrom(last.before) :
            (r.id = last.input.id /\ r.isActive = 0) =>
                /\ last.outcome = Ok([success |-> TRUE, deletedId |-> r.id])
                /\ repos = last.before.repos
                /\ projects = last.before.projects

\* What C26 says of a repeated soft remove: after a soft remove that
\* returned, the same soft remove again leaves both tables as the first
\* left them, and returns the same.
C26_RepeatedSoftRemoveChangesNothing ==
    (/\ RemoveFound
     /\ ~HardDeleteOf(last.input)
     /\ last'.tool = last.tool
     /\ last'.input.id = last.input.id
     /\ ~HardDeleteOf(last'.input))
    => /\ repos' = repos
       /\ projects' = projects
       /\ last'.outcome = last.outcome

\* C26: a soft remove of a row that is already inactive returns
\* success = true and leaves the table unchanged; repeating a soft remove
\* gives the same state as doing it once.
C26_SoftRemoveIdempotent ==
    /\ []C26_SoftRemoveOfInactiveChangesNothing
    /\ [][C26_RepeatedSoftRemoveChangesNothing]_vars

\* A soft remove of a tracked repository that was inactive, another row of
\* the table being active.
C26_Witness ==
    /\ IsCall("REMOVE_TRACKED_REPOSITORY")
    /\ ~HardDeleteOf(last.input)
    /\ last.outcome.ok
    /\ \E r \in last.before.repos : r.id = last.input.id /\ r.isActive = 0
    /\ \E r \in repos : r.isActive = 1
    /\ repos = last.before.repos

\* What C27 says of every call: a row of tracked_projects that is still
\* there after the call has the projectId and organizationLogin it had.
C27_KeyColumnsKept ==
    \A r \in projects :
        \A q \in projects' :
            q.id = r.id =>
                /\ q.projectId = r.projectId
                /\ q.organizationLogin = r.organizationLogin
                /\ q.createdAt = r.createdAt

\* What C27 says of an ADD_TRACKED_PROJECT for a projectId that had a row:
\* the row differs from what it was in title and isActive at most, and the
\* call returns the organizationLogin the row had.
C27_ReturnsOriginalOrganization ==
    AddedExistingProject =>
        \A r \in RowsOfProjectId(last.before.projects, last.input.projectId) :
            /\ last.outcome.ok
            /\ last.outcome.value.organizationLogin = r.organizationLogin
            /\ last.outcome.value.projectId = r.projectId
            /\ \E t \in Titles, a \in {0, 1} :
                   [r EXCEPT !.title = t, !.isActive = a] \in projects

\* C27: the organizationLogin and projectId of a tracked-project row never
\* change after the row is created; a repeated ADD_TRACKED_PROJECT with a
\* different organizationLogin updates title and isActive only and returns
\* the row's original organizationLogin.
C27_OrganizationAndProjectIdNeverChange ==
    /\ []C27_ReturnsOriginalOrganization
    /\ [][C27_KeyColumnsKept]_vars

\* A repeated add naming another organization: the call returned the
\* organization the row was created with.
C27_Witness ==
    /\ AddedExistingProject
    /\ last.outcome.ok
    /\ last.outcome.value.organizationLogin # last.input.organizationLogin
    /\ last.outcome.value.title = last.input.title
    /\ \E r \in last.before.projects :
           r.projectId = last.input.projectId /\ r.title # last.input.title

\* C29: a tracking tool behaves with no githubToken configured exactly as
\* with one, and sends no request to GitHub: every step a tracking call
\* takes, in a request with whatever state, is a step the same call takes
\* in a request without state and a step it takes in a request with a
\* token, and it leaves the requests sent as they were.
C29_TrackingIgnoresCredential ==
    [][\A call \in TrackingCalls :
           (last'.tool = call.tool /\ last'.input = call.input) =>
               /\ TrackingToolCall(<<>>, call)
               /\ TrackingToolCall([githubToken |-> "ghp_token"], call)
               /\ sent' = sent
               /\ sent = <<>>]_vars

\* A tracking call that changed a table: a repository row was reactivated.
C29_Witness ==
    /\ IsCall("ADD_TRACKED_REPOSITORY")
    /\ last.outcome.ok
    /\ \E r \in last.before.repos : r.isActive = 0
    /\ \E r \in repos : r.isActive = 1
    /\ projects # {}
    /\ sent = <<>>

----------------------------------------------------------------------------
(* Properties of concurrent tracking calls.                                *)

\* C21: whatever the interleaving of the lookups and writes of concurrent
\* ADD_TRACKED_REPOSITORY calls for one (owner, name), tracked_repositories
\* holds at most one row of that pair.
C21_NoDuplicateUnderInterleaving ==
    \A o \in Owners, n \in Names :
        Cardinality({r \in repos : SameRepository(r, o, n)}) <= 1

\* C22: concurrent ADD_TRACKED_PROJECT calls for a projectId that has no row
\* yet all complete successfully, under every interleaving of their lookups
\* and inserts: a call whose lookup found no row of its projectId returns a
\* row, it does not fail on the unique index.
C22_ConcurrentAddsBothSucceed ==
    [][\A c \in Callers :
           (/\ Found(c, "ADD_TRACKED_PROJECT")
            /\ inflight[c].existing = <<>>
            /\ inflight'[c].pc = "done")
           => inflight'[c].outcome.ok]_vars

----------------------------------------------------------------------------
(* Further properties of the GitHub-backed tools.                          *)

\* The query that resolves the node id a tool needs.
NodeIdQueryOf(tool) ==
    CASE tool = "CREATE_PROJECT" -> "GetOrgId"
      [] tool = "CREATE_ISSUE" -> "GetRepositoryId"
      [] OTHER -> "GetIssueId"

\* The variable of a tool's mutation that carries the node id.
NodeIdVariableOf(tool) ==
    CASE tool = "CREATE_PROJECT" -> "ownerId"
      [] tool = "CREATE_ISSUE" -> "repositoryId"
      [] tool \in {"UPDATE_ISSUE", "CLOSE_ISSUE"} -> "issueId"
      [] tool = "ADD_ISSUE_COMMENT" -> "subjectId"
      [] tool \in {"ADD_LABELS_TO_ISSUE", "REMOVE_LABELS_FROM_ISSUE"} ->
             "labelableId"
      [] tool \in {"ASSIGN_ISSUE", "UNASSIGN_ISSUE"} -> "assignableId"

\* C23: a tool that needs a node id sends the query resolving it first
\* (repository id for CREATE_ISSUE, organization id for CREATE_PROJECT, issue
\* id for the others) and its mutation only after, carrying the id the query
\* gave; a call that settled with the lookup as its only request rejected
\* with the lookup's error, the mutation never sent.
C23_NodeIdResolvedBeforeMutation ==
    IsToolCall(NodeIdTools) =>
        /\ Len(sent) >= 1 => sent[1].body.query = NodeIdQueryOf(last.tool)
        /\ \A i \in 1..Len(sent) :
               sent[i].body.query \notin NodeIdQueries =>
                   /\ i = 2
                   /\ NodeIdVariableOf(last.tool)
                          \in DOMAIN sent[i].body.variables
                   /\ sent[i].body.variables[NodeIdVariableOf(last.tool)].json
                          = "string"
        /\ (last.pc = "settled" /\ Len(sent) = 1) =>
               /\ ~last.outcome.ok
               /\ last.failed \in {{"graphqlQuery"}, {"nodeId"}}
        /\ (last.pc = "settled" /\ last.failed \cap {"nodeId"} # {}) =>
               Len(sent) = 1

\* ASSIGN_ISSUE on an issue GitHub does not have: the id query answered
\* with a null repository, the read of the id threw, no mutation was sent.
C23_Witness ==
    /\ ToolIsSettled({"ASSIGN_ISSUE"})
    /\ last.failed = {"nodeId"}
    /\ last.outcome = Throw(ReadOfMissing)
    /\ Len(sent) = 1
    /\ sent[1].body.query = "GetIssueId"

\* C28: whatever number `first` is (0 and negative numbers included) and
\* when it is omitted, the page size LIST_ISSUES, LIST_ISSUE_COMMENTS,
\* LIST_GITHUB_PROJECTS and LIST_PROJECT_ITEMS send lies between 1 and 100,
\* and an omitted or zero first is sent as 20.
C28_PageSizeBetween1And100 ==
    IsToolCall({"LIST_ISSUES", "LIST_ISSUE_COMMENTS", "LIST_GITHUB_PROJECTS",
                "LIST_PROJECT_ITEMS"}) =>
        \A i \in 1..Len(sent) :
            LET first == sent[i].body.variables.first
            IN  /\ first >= 1
                /\ first <= 100
                /\ ("first" \notin DOMAIN last.input
                        \/ last.input.first = 0) => first = 20

\* C30: when CREATE_PROJECT is given a description, the CreateProject
\* mutation it sends carries that description among its variables.
C30_CreateProjectSendsDescription ==
    (IsToolCall({"CREATE_PROJECT"}) /\ "description" \in DOMAIN last.input) =>
        \A i \in 1..Len(sent) :
            sent[i].body.query = "CreateProject" =>
                /\ "description" \in DOMAIN sent[i].body.variables
                /\ sent[i].body.variables.description = last.input.description

====
